---- MODULE Spec2Model ----
(***************************************************************************)
(* Model of valrpy's streaming side: ValrWebsocketConnector (the channel   *)
(* map, the pipeline lock, subscribe_to_account / subscribe_to_market),    *)
(* WebsocketPipeline (receive worker, heartbeat worker, frame handler) and *)
(* the message handler's dispatch on WebsocketMessageType.                 *)
(***************************************************************************)
EXTENDS Integers, Sequences, FiniteSets, TLC

(* ------------------------------ bounds --------------------------------- *)
NumCallers == 2
MaxFrames == 2

Callers == 1..NumCallers

(* --------------------------- enums.py ---------------------------------- *)
WebsocketType == {"ACCOUNT", "TRADE"}

ControlTags ==
    {"AUTHENTICATED", "PING", "PONG", "SUBSCRIBE", "UNSUBSCRIBE",
     "SUBSCRIBED", "UNSUBSCRIBED", "NO_SUBSCRIPTIONS"}

AccountTags ==
    {"NEW_ACCOUNT_HISTORY_RECORD", "BALANCE_UPDATE", "NEW_ACCOUNT_TRADE",
     "INSTANT_ORDER_COMPLETED", "OPEN_ORDERS_UPDATE", "ORDER_PROCESSED",
     "ORDER_STATUS_UPDATE", "FAILED_CANCEL_ORDER", "NEW_PENDING_RECEIVE",
     "SEND_STATUS_UPDATE"}

TradeTags ==
    {"AGGREGATED_ORDERBOOK_UPDATE", "FULL_ORDERBOOK_UPDATE",
     "MARKET_SUMMARY_UPDATE", "NEW_TRADE_BUCKET", "NEW_TRADE",
     "MARK_PRICE_UPDATE"}

WebsocketMessageType == ControlTags \cup AccountTags \cup TradeTags

\* has_data with the control tags forgotten
has_data_always(tag) == TRUE

has_data(tag) ==
    IF tag \in {"AUTHENTICATED", "PING", "PONG", "SUBSCRIBE", "UNSUBSCRIBE",
                "SUBSCRIBED", "UNSUBSCRIBED", "NO_SUBSCRIPTIONS"}
    THEN FALSE
    ELSE TRUE

\* websocket_type that puts every tag on the trade channel
websocket_type_all_trade(tag) == "TRADE"

websocket_type(tag) ==
    IF tag \in {"OPEN_ORDERS_UPDATE", "BALANCE_UPDATE"} THEN "ACCOUNT"
    ELSE IF tag \in {"AGGREGATED_ORDERBOOK_UPDATE", "FULL_ORDERBOOK_UPDATE",
                     "MARKET_SUMMARY_UPDATE", "NEW_TRADE_BUCKET", "NEW_TRADE"}
         THEN "TRADE"
         ELSE "NotImplementedError"

(* ----------------------- inbound frames (inputs) ----------------------- *)
\* kind: "none"      the transport hands over None
\*       "badjson"   text that is not JSON
\*       "nonobject" JSON text whose value is not an object (list, number)
\*       "object"    a JSON object, with its "type" and "data" entries
NoType == "<no type>"
UnknownTag == "SOME_UNKNOWN_TAG"
\* a known tag in the wrong letter case is no member of the enum either
LowerCaseTag == "aggregated_orderbook_update"
FrameTypes == WebsocketMessageType \cup {NoType, UnknownTag, LowerCaseTag}

\* the "data" entry, relative to the record schema of the frame's tag
\*   "absent"           missing or null
\*   "ok"               satisfies the schema (a map, or a list of maps for
\*                      a list-of-record tag)
\*   "unexpected_key"   a map with a key that is no declared field
\*   "missing_required" a map that lacks a required field
\*   "wrong_shape"      not a map (not a list for a list-of-record tag)
Payloads == {"absent", "ok", "unexpected_key", "missing_required", "wrong_shape"}

Frame(k, t, d) == [kind |-> k, type |-> t, data |-> d]

Frames ==
    {Frame("none", NoType, "absent"), Frame("badjson", NoType, "absent"),
     Frame("nonobject", NoType, "absent")}
    \cup {Frame("object", t, d) : t \in FrameTypes, d \in Payloads}

FrameSample ==
    {Frame("object", "AGGREGATED_ORDERBOOK_UPDATE", "ok"),
     Frame("object", "PONG", "absent")}

(* ------------------- messages/core.py: from_raw ------------------------ *)
NoException == "none"

from_raw(cls, payload) ==
    CASE payload = "ok" -> [exc |-> NoException, data |-> cls]
      [] payload = "unexpected_key" -> [exc |-> "ValueError", data |-> "none"]
      [] payload = "missing_required" -> [exc |-> "TypeError", data |-> "none"]
      [] OTHER -> [exc |-> "AttributeError", data |-> "none"]

(* --------------- websocket_connector.py: _message_handler -------------- *)
\* The match statement: the cases in source order, each with the value
\* patterns of its alternatives, the record class it decodes to and whether
\* the payload is a list of that class.
Case(pats, cls, isList) == [pats |-> pats, cls |-> cls, isList |-> isList]

MatchCases ==
    << Case(<<"AGGREGATED_ORDERBOOK_UPDATE">>, "AggregatedOrderbook", FALSE),
       Case(<<"FULL_ORDERBOOK_UPDATE", "FULL_ORDERBOOK_SNAPSHOT">>,
            "WebsocketFullOrderbook", FALSE),
       Case(<<"MARKET_SUMMARY_UPDATE">>, "MarketSummary", FALSE),
       Case(<<"NEW_TRADE_BUCKET">>, "TradeBucket", FALSE),
       Case(<<"NEW_TRADE">>, "NewTrade", FALSE),
       Case(<<"OPEN_ORDERS_UPDATE">>, "WebsocketOpenOrderInfo", TRUE),
       Case(<<"NEW_ACCOUNT_HISTORY_RECORD">>, "NewAccountHistoryRecord", FALSE),
       Case(<<"BALANCE_UPDATE">>, "BalanceUpdate", FALSE),
       Case(<<"NEW_ACCOUNT_TRADE">>, "NewAccountTrade", FALSE),
       Case(<<"INSTANT_ORDER_COMPLETED">>,
            "InstantOrderCompletedNotification", FALSE),
       Case(<<"ORDER_PROCESSED">>, "OrderProcessedNotification", FALSE),
       Case(<<"ORDER_STATUS_UPDATE">>, "OrderStatusUpdate", FALSE),
       Case(<<"FAILED_CANCEL_ORDER">>, "FailedCancelOrderNotification", FALSE),
       Case(<<"NEW_PENDING_RECEIVE">>, "NewPendingReceive", FALSE),
       Case(<<"SEND_STATUS_UPDATE">>, "StatusUpdate", FALSE) >>

\* Value patterns are looked up when they are tried, in order: a pattern that
\* names no member of the enum raises AttributeError at that moment.
\* Result: the index of the matching case, 0 for the default case, or -1 for
\* the AttributeError.
RECURSIVE MatchFrom(_, _, _)
MatchFrom(tag, i, j) ==
    IF i > Len(MatchCases) THEN 0
    ELSE IF j > Len(MatchCases[i].pats) THEN MatchFrom(tag, i + 1, 1)
    ELSE IF MatchCases[i].pats[j] \notin WebsocketMessageType THEN -1
    ELSE IF MatchCases[i].pats[j] = tag THEN i
    ELSE MatchFrom(tag, i, j + 1)

Raise(e) == [exc |-> e, msg |-> <<>>]

DecodeCase(tag, c, payload) ==
    IF c.isList /\ payload = "wrong_shape" THEN Raise("TypeError")
    ELSE LET r == from_raw(c.cls, payload)
         IN  IF r.exc # NoException THEN Raise(r.exc)
             ELSE [exc |-> NoException,
                   msg |-> <<[type |-> tag,
                              data |-> IF c.isList THEN <<r.data>> ELSE r.data]>>]

\* _message_handler that takes a tag it does not know for a control tag
message_handler_lenient(f) ==
    IF f.type = NoType THEN Raise("ValueError")
    ELSE IF f.type \notin WebsocketMessageType
         THEN [exc |-> NoException, msg |-> <<>>]
    ELSE IF ~has_data(f.type) THEN [exc |-> NoException, msg |-> <<>>]
    ELSE IF f.data = "absent" THEN Raise("ValueError")
    ELSE LET m == MatchFrom(f.type, 1, 1)
         IN  CASE m = -1 -> Raise("AttributeError")
               [] m = 0 -> Raise("NotImplementedError")
               [] OTHER -> DecodeCase(f.type, MatchCases[m], f.data)

\* _message_handler(message) for a dict message: the exception it raises, or
\* the ParsedMessage it returns (msg is empty when it returns None).
message_handler(f) ==
    IF f.type = NoType THEN Raise("ValueError")
    ELSE IF f.type \notin WebsocketMessageType THEN Raise("ValueError")
    ELSE IF ~has_data(f.type) THEN [exc |-> NoException, msg |-> <<>>]
    ELSE IF f.data = "absent" THEN Raise("ValueError")
    ELSE LET m == MatchFrom(f.type, 1, 1)
         IN  CASE m = -1 -> Raise("AttributeError")
               [] m = 0 -> Raise("NotImplementedError")
               [] OTHER -> DecodeCase(f.type, MatchCases[m], f.data)

(* --------------- websocket_connector.py: _on_message ------------------- *)
\* exc: the exception that leaves the handler; logged: whether the handler
\* logged the offending message; put: what it puts on the queue.
Handled(e, l, put) == [exc |-> e, logged |-> l, put |-> put]

\* _on_message with the formatter's exception logged and then swallowed
on_message_swallowing(f) ==
    CASE f.kind = "none" -> Handled(NoException, FALSE, <<>>)
      [] f.kind = "badjson" -> Handled("JSONDecodeError", FALSE, <<>>)
      [] f.kind = "nonobject" -> Handled("TypeError", FALSE, <<>>)
      [] OTHER ->
          LET r == message_handler(f)
          IN  IF r.exc # NoException THEN Handled(NoException, TRUE, <<>>)
              ELSE Handled(NoException, FALSE, r.msg)

on_message(f) ==
    CASE f.kind = "none" -> Handled(NoException, FALSE, <<>>)
      [] f.kind = "badjson" -> Handled("JSONDecodeError", FALSE, <<>>)
      [] f.kind = "nonobject" -> Handled("TypeError", FALSE, <<>>)
      [] OTHER ->
          LET r == message_handler(f)
          IN  IF r.exc # NoException THEN Handled(r.exc, TRUE, <<>>)
              ELSE Handled(NoException, FALSE, r.msg)

(* ------------------------------ state ---------------------------------- *)
VARIABLES
    pipelines,  \* ValrWebsocketConnector._pipelines: channel -> pipeline id
    lock,       \* ValrWebsocketConnector._pipeline_lock: its holder, or Free
    callers,    \* the threads calling the connector's public methods
    pipes,      \* every WebsocketPipeline constructed so far, by id
    queue,      \* ValrWebsocketConnector.queue
    delivered,  \* what the consumer has taken off the queue, in order
    handled,    \* the most recent call of a pipeline's _on_message
    pure,       \* a call of one of the pure functions: its input, its result
    _api_secret \* ValrWebsocketConnector._api_secret

vars == <<pipelines, lock, callers, pipes, queue, delivered, handled, pure, _api_secret>>

Free == 0
NoPipeline == 0

\* An Optional[str] is <<>> for None and <<s>> for the string s.
None == <<>>
Some(s) == <<s>>
Pids == 1..Len(pipes)

IdleCaller == [pc |-> "idle", op |-> "none", ch |-> "none", msg |-> <<>>,
               result |-> "none", pid |-> NoPipeline]

NoFrame == Frame("no frame yet", NoType, "absent")

\* no pure function has been called
NoCall == [fn |-> "none"]

NoHandled == [frame |-> NoFrame, exc |-> NoException, logged |-> FALSE, put |-> <<>>]

\* the connector after construction, whatever credentials it was given
NewConnector ==
    /\ pipelines = [c \in WebsocketType |-> NoPipeline]
    /\ lock = Free
    /\ callers = [t \in Callers |-> IdleCaller]
    /\ pipes = <<>>
    /\ queue = <<>>
    /\ delivered = <<>>
    /\ handled = NoHandled

\* a connector constructed with an api secret
ConnectorInit ==
    /\ NewConnector
    /\ _api_secret = Some("api-secret")

\* the api secret is declared str and taken as it is given: None is kept
Init ==
    /\ NewConnector
    /\ _api_secret \in {None, Some("api-secret")}
    /\ pure = NoCall

(* ------------------- WebsocketPipeline.send_message -------------------- *)
\* WebSocketApp.send writes the frame when the connection is open and raises
\* otherwise.
CanSend(p) == pipes[p].conn = "OPEN"

\* sent keeps the subscription traffic written on the connection; a heartbeat
\* frame written shows as the heartbeat worker entering its sleep
Ping == [type |-> "PING"]

SendOn(pl, message) ==
    IF message = Ping THEN pl ELSE [pl EXCEPT !.sent = Append(@, message)]

(* ------------------ ValrWebsocketConnector: callers -------------------- *)
Return(t, res) == [callers[t] EXCEPT !.pc = "done", !.result = res]

SubscriptionMessage(event_type, symbols) ==
    [type |-> "SUBSCRIBE", event |-> event_type, pairs |-> symbols]

\* the symbols a caller subscribes to: each caller asks for its own pair
SymbolsOf(t) == <<t>>

EventSample == {"NEW_TRADE", "BALANCE_UPDATE", "PING"}

subscribe_to_account(t) ==
    /\ callers[t].pc = "idle"
    /\ callers' = [callers EXCEPT ![t] =
                     [@ EXCEPT !.pc = "create", !.op = "subscribe_to_account",
                               !.ch = "ACCOUNT", !.msg = <<>>]]
    /\ UNCHANGED <<pipelines, lock, pipes, queue, delivered, handled, pure, _api_secret>>

\* subscribe_to_market that takes a closed pipeline for none and opens the
\* channel again
subscribe_to_market_reopens(t, event_type) ==
    /\ callers[t].pc = "idle"
    /\ LET c == [callers[t] EXCEPT !.op = "subscribe_to_market", !.ch = "TRADE",
                     !.msg = <<SubscriptionMessage(event_type, SymbolsOf(t))>>]
       IN  callers' = [callers EXCEPT ![t] =
             IF websocket_type(event_type) = "NotImplementedError"
             THEN [c EXCEPT !.pc = "done", !.result = "NotImplementedError"]
             ELSE IF websocket_type(event_type) # "TRADE"
             THEN [c EXCEPT !.pc = "done", !.result = "ValueError: market-type"]
             ELSE IF \/ pipelines["TRADE"] = NoPipeline
                     \/ pipes[pipelines["TRADE"]].conn = "CLOSED"
             THEN [c EXCEPT !.pc = "create"]
             ELSE [c EXCEPT !.pc = "send"]]
    /\ UNCHANGED <<pipelines, lock, pipes, queue, delivered, handled, pure, _api_secret>>

\* up to the test on self._pipelines.get(TRADE), which is made without the lock
subscribe_to_market(t, event_type) ==
    /\ callers[t].pc = "idle"
    /\ LET c == [callers[t] EXCEPT !.op = "subscribe_to_market", !.ch = "TRADE",
                     !.msg = <<SubscriptionMessage(event_type, SymbolsOf(t))>>]
       IN  callers' = [callers EXCEPT ![t] =
             IF websocket_type(event_type) = "NotImplementedError"
             THEN [c EXCEPT !.pc = "done", !.result = "NotImplementedError"]
             ELSE IF websocket_type(event_type) # "TRADE"
             THEN [c EXCEPT !.pc = "done", !.result = "ValueError: market-type"]
             ELSE IF pipelines["TRADE"] = NoPipeline
             THEN [c EXCEPT !.pc = "create"]
             ELSE [c EXCEPT !.pc = "send"]]
    /\ UNCHANGED <<pipelines, lock, pipes, queue, delivered, handled, pure, _api_secret>>

\* the else branch: self._pipelines[TRADE].send_message(message)
market_send(t) ==
    /\ callers[t].pc = "send"
    /\ LET p == pipelines["TRADE"]
       IN  IF CanSend(p)
           THEN /\ pipes' = [pipes EXCEPT ![p] = SendOn(@, callers[t].msg[1])]
                /\ callers' = [callers EXCEPT ![t] = Return(t, "ok")]
           ELSE /\ pipes' = pipes
                /\ callers' = [callers EXCEPT ![t] =
                                 Return(t, "WebSocketConnectionClosedException")]
    /\ UNCHANGED <<pipelines, lock, queue, delivered, handled, pure, _api_secret>>

(* ------------- _create_and_start_websocket_pipeline -------------------- *)
\* the creation entered without waiting for the lock
LockIgnored == TRUE

LockAvailable == lock = Free

\* the test for an existing pipeline left out
NeverAlreadyHave(websocket_type_) == FALSE

AlreadyHave(websocket_type_) == pipelines[websocket_type_] # NoPipeline

NewPipeline(ch, opening_messages) ==
    [ch |-> ch, opening |-> opening_messages, conn |-> "CONNECTING",
     ping |-> "unstarted", sent |-> <<>>, nrecv |-> 0,
     recv |-> "running", log |-> {}]

\* generate_headers raises when the secret cannot be encoded:
\* request_signature calls api_secret.encode("utf-8")
HeadersFail == _api_secret = None

\* a creation that leaves with the lock still held when generate_headers
\* raises
create_enter_keeps_lock(t) ==
    /\ callers[t].pc = "create"
    /\ LockAvailable
    /\ IF AlreadyHave(callers[t].ch)
       THEN /\ callers' = [callers EXCEPT ![t] =
                             Return(t, "ValueError: already have a pipeline")]
            /\ UNCHANGED <<lock, pipes>>
       ELSE IF HeadersFail
       THEN /\ callers' = [callers EXCEPT ![t] = Return(t, "AttributeError")]
            /\ lock' = t
            /\ UNCHANGED pipes
       ELSE /\ lock' = t
            /\ pipes' = Append(pipes, NewPipeline(callers[t].ch, callers[t].msg))
            /\ callers' = [callers EXCEPT ![t] =
                             [@ EXCEPT !.pc = "starting", !.pid = Len(pipes) + 1]]
    /\ UNCHANGED <<pipelines, queue, delivered, handled, pure, _api_secret>>

\* with self._pipeline_lock: the test, generate_headers, the construction of
\* the pipeline and the first half of start() (the receive worker is started);
\* an exception leaves the with block, which releases the lock
create_enter(t) ==
    /\ callers[t].pc = "create"
    /\ LockAvailable
    /\ IF AlreadyHave(callers[t].ch)
       THEN /\ callers' = [callers EXCEPT ![t] =
                             Return(t, "ValueError: already have a pipeline")]
            /\ UNCHANGED <<lock, pipes>>
       ELSE IF HeadersFail
       THEN /\ callers' = [callers EXCEPT ![t] = Return(t, "AttributeError")]
            /\ UNCHANGED <<lock, pipes>>
       ELSE /\ lock' = t
            /\ pipes' = Append(pipes, NewPipeline(callers[t].ch, callers[t].msg))
            /\ callers' = [callers EXCEPT ![t] =
                             [@ EXCEPT !.pc = "starting", !.pid = Len(pipes) + 1]]
    /\ UNCHANGED <<pipelines, queue, delivered, handled, pure, _api_secret>>

\* after start()'s sleep: the heartbeat worker is started, the pipeline is
\* registered and the lock is released
create_finish(t) ==
    /\ callers[t].pc = "starting"
    /\ pipes' = [pipes EXCEPT ![callers[t].pid].ping = "send"]
    /\ pipelines' = [pipelines EXCEPT ![callers[t].ch] = callers[t].pid]
    /\ lock' = Free
    /\ callers' = [callers EXCEPT ![t] = Return(t, "ok")]
    /\ UNCHANGED <<queue, delivered, handled, pure, _api_secret>>

(* ----------------- WebsocketPipeline: receive worker ------------------- *)
\* _on_open that sends nothing
on_open_silent(p) ==
    /\ pipes[p].conn = "CONNECTING"
    /\ pipes' = [pipes EXCEPT ![p].conn = "OPEN"]
    /\ UNCHANGED <<pipelines, lock, callers, queue, delivered, handled, pure, _api_secret>>

\* the handshake succeeds and the transport calls _on_open
on_open(p) ==
    /\ pipes[p].conn = "CONNECTING"
    /\ pipes' = [pipes EXCEPT ![p] =
          [@ EXCEPT !.conn = "OPEN", !.sent = @ \o pipes[p].opening]]
    /\ UNCHANGED <<pipelines, lock, callers, queue, delivered, handled, pure, _api_secret>>

\* what run_forever and WebSocketApp.close can do: return or raise
Outcomes == {"returns", "raises"}

\* the ordinary end of a connection: run_forever returns and close returns
OutcomeSample == {"returns"}

\* the except clause of _run_websocket: the exception is logged
run_forever_ended(pl, run_forever) ==
    IF run_forever = "raises"
    THEN [pl EXCEPT !.log = @ \cup {"Error while running websocket:"}]
    ELSE pl

\* _terminate_websocket without its try: the exception of close leaves it
terminate_websocket_unguarded(pl, close) ==
    IF close = "raises"
    THEN [pl EXCEPT !.conn = "CLOSED", !.recv = "raised"]
    ELSE [pl EXCEPT !.conn = "CLOSED", !.recv = "returned"]

\* _terminate_websocket, the last statement of the receive worker: an
\* exception of close is logged and goes no further
terminate_websocket(pl, close) ==
    IF close = "raises"
    THEN [pl EXCEPT !.conn = "CLOSED", !.recv = "returned",
                    !.log = @ \cup {"error while terminating websocket:"}]
    ELSE [pl EXCEPT !.conn = "CLOSED", !.recv = "returned"]

\* _run_websocket with the connection loop run again after it has ended
run_websocket_again(p, run_forever, close) ==
    /\ pipes' = [pipes EXCEPT ![p].conn =
                    IF @ = "CLOSED" THEN "CONNECTING" ELSE "CLOSED"]
    /\ UNCHANGED <<pipelines, lock, callers, queue, delivered, handled, pure, _api_secret>>

\* run_forever ends (failed handshake, transport error, close by the peer) by
\* returning or raising; the finally clause closes the connection
run_websocket_exit(p, run_forever, close) ==
    /\ pipes[p].conn \in {"CONNECTING", "OPEN"}
    /\ pipes' = [pipes EXCEPT ![p] =
                    terminate_websocket(run_forever_ended(@, run_forever), close)]
    /\ UNCHANGED <<pipelines, lock, callers, queue, delivered, handled, pure, _api_secret>>

\* a put at the front of the queue
QueuePutFront(q, items) == items \o q

\* Queue.put
QueuePut(q, items) == q \o items

Stamp(items, p, n) == [i \in 1..Len(items) |-> [type |-> items[i].type,
                          data |-> items[i].data, pid |-> p, seq |-> n]]

\* the transport hands frame f, the next one of its connection, to _on_message
receive_frame(p, f) ==
    /\ pipes[p].conn = "OPEN"
    /\ pipes[p].nrecv < MaxFrames
    /\ LET r == on_message(f)
           n == pipes[p].nrecv + 1
       IN  /\ queue' = QueuePut(queue, Stamp(r.put, p, n))
           /\ pipes' = [pipes EXCEPT ![p].nrecv = n]
           /\ handled' = [frame |-> f, exc |-> r.exc, logged |-> r.logged,
                          put |-> SubSeq(queue', Len(queue) + 1, Len(queue'))]
    /\ UNCHANGED <<pipelines, lock, callers, delivered, pure, _api_secret>>

(* ---------------- WebsocketPipeline: heartbeat worker ------------------ *)
ping_send(p) ==
    /\ pipes[p].ping = "send"
    /\ pipes' = [pipes EXCEPT ![p] =
          IF CanSend(p) THEN [SendOn(@, Ping) EXCEPT !.ping = "sleep"]
          ELSE [@ EXCEPT !.ping = "dead"]]
    /\ UNCHANGED <<pipelines, lock, callers, queue, delivered, handled, pure, _api_secret>>

\* a heartbeat worker that starts over after a failed send
ping_wake_restarts(p) ==
    /\ pipes[p].ping \in {"sleep", "dead"}
    /\ pipes' = [pipes EXCEPT ![p].ping = "send"]
    /\ UNCHANGED <<pipelines, lock, callers, queue, delivered, handled, pure, _api_secret>>

ping_wake(p) ==
    /\ pipes[p].ping = "sleep"
    /\ pipes' = [pipes EXCEPT ![p].ping = "send"]
    /\ UNCHANGED <<pipelines, lock, callers, queue, delivered, handled, pure, _api_secret>>

(* ------------------------------ consumer ------------------------------- *)
queue_get ==
    /\ queue # <<>>
    /\ delivered' = Append(delivered, Head(queue))
    /\ queue' = Tail(queue)
    /\ UNCHANGED <<pipelines, lock, callers, pipes, handled, pure, _api_secret>>

(* --------------------------- specifications ---------------------------- *)
Next ==
    \/ \E t \in Callers : subscribe_to_account(t)
    \/ \E t \in Callers, e \in EventSample : subscribe_to_market(t, e)
    \/ \E t \in Callers : market_send(t)
    \/ \E t \in Callers : create_enter(t)
    \/ \E t \in Callers : create_finish(t)
    \/ \E p \in Pids : on_open(p)
    \/ \E p \in Pids, run_forever \in OutcomeSample, close \in OutcomeSample :
          run_websocket_exit(p, run_forever, close)
    \/ \E p \in Pids, f \in FrameSample : receive_frame(p, f)
    \/ \E p \in Pids : ping_send(p)
    \/ \E p \in Pids : ping_wake(p)
    \/ queue_get

Spec == Init /\ [][Next]_vars

\* The callers' threads and the heartbeat workers are scheduled by the
\* operating system: a step of theirs that stays possible is taken.  What the
\* network does (handshake, frames, loss of the connection) and whether
\* further calls are made is left open.
MaxPipes == NumCallers

Fairness ==
    /\ \A t \in Callers : WF_vars(create_enter(t))
    /\ \A t \in Callers : WF_vars(create_finish(t))
    /\ \A t \in Callers : WF_vars(market_send(t))
    /\ \A p \in 1..MaxPipes : WF_vars(p \in Pids /\ ping_send(p))
    /\ \A p \in 1..MaxPipes : WF_vars(p \in Pids /\ ping_wake(p))

FairSpec == Spec /\ Fairness

\* The creation of pipelines on its own: the callers' threads, and of the
\* pipelines only the opening and the loss of the connection, which decide
\* whether a subscription can be sent.  Frames, heartbeats and the consumer
\* touch neither the lock nor the channel map nor a caller, and are left out.
CreationNext ==
    \/ \E t \in Callers : subscribe_to_account(t)
    \/ \E t \in Callers, e \in EventSample : subscribe_to_market(t, e)
    \/ \E t \in Callers : market_send(t)
    \/ \E t \in Callers : create_enter(t)
    \/ \E t \in Callers : create_finish(t)
    \/ \E p \in Pids : on_open(p)
    \/ \E p \in Pids, run_forever \in OutcomeSample, close \in OutcomeSample :
          run_websocket_exit(p, run_forever, close)

\* a caller's thread that can take or release the lock does so
CreationSpec ==
    /\ Init
    /\ [][CreationNext]_vars
    /\ \A t \in Callers : WF_vars(create_enter(t)) /\ WF_vars(create_finish(t))

\* One pipeline's frame handler on its own: the connector after one subscribe
\* call whose pipeline has opened, fed with every kind of frame.
OpenPipeline(ch, opening_messages) ==
    [NewPipeline(ch, opening_messages) EXCEPT
        !.conn = "OPEN", !.sent = opening_messages, !.ping = "send"]

DoneCaller(ch, opening_messages) ==
    [pc |-> "done",
     op |-> IF ch = "TRADE" THEN "subscribe_to_market" ELSE "subscribe_to_account",
     ch |-> ch, msg |-> opening_messages, result |-> "ok", pid |-> 1]

HandlerInit ==
    \E ch \in WebsocketType :
      LET om == IF ch = "TRADE"
                THEN <<SubscriptionMessage("NEW_TRADE", SymbolsOf(1))>>
                ELSE <<>>
      IN  /\ pipelines = [c \in WebsocketType |-> IF c = ch THEN 1 ELSE NoPipeline]
          /\ lock = Free
          /\ callers = [t \in Callers |->
                          IF t = 1 THEN DoneCaller(ch, om) ELSE IdleCaller]
          /\ pipes = <<OpenPipeline(ch, om)>>
          /\ queue = <<>>
          /\ delivered = <<>>
          /\ handled = NoHandled
          /\ pure = NoCall
          /\ _api_secret = Some("api-secret")

HandlerNext ==
    \/ \E f \in Frames : receive_frame(1, f)
    \/ queue_get

HandlerSpec == HandlerInit /\ [][HandlerNext]_vars

\* One pipeline's workers on their own: the connector after one subscribe
\* call, its pipeline started and registered, with every way for the receive
\* loop and for close to end.
StartedPipeline(ch, opening_messages) ==
    [NewPipeline(ch, opening_messages) EXCEPT !.ping = "send"]

PipelineInit ==
    \E ch \in WebsocketType :
      LET om == IF ch = "TRADE"
                THEN <<SubscriptionMessage("NEW_TRADE", SymbolsOf(1))>>
                ELSE <<>>
      IN  /\ pipelines = [c \in WebsocketType |-> IF c = ch THEN 1 ELSE NoPipeline]
          /\ lock = Free
          /\ callers = [t \in Callers |->
                          IF t = 1 THEN DoneCaller(ch, om) ELSE IdleCaller]
          /\ pipes = <<StartedPipeline(ch, om)>>
          /\ queue = <<>>
          /\ delivered = <<>>
          /\ handled = NoHandled
          /\ pure = NoCall
          /\ _api_secret = Some("api-secret")

PipelineNext ==
    \/ on_open(1)
    \/ \E run_forever \in Outcomes, close \in Outcomes :
          run_websocket_exit(1, run_forever, close)
    \/ \E f \in FrameSample : receive_frame(1, f)
    \/ ping_send(1)
    \/ ping_wake(1)
    \/ queue_get

PipelineSpec == PipelineInit /\ [][PipelineNext]_vars

\* the state HandlerSpec starts in is a state of Spec
HandlerInitReached ==
    /\ Len(pipes) = 1 /\ pipes[1].conn = "OPEN" /\ pipes[1].ping = "send"
    /\ pipes[1].nrecv = 0 /\ pipes[1].sent = pipes[1].opening
    /\ callers[1].pc = "done" /\ callers[1].pid = 1 /\ lock = Free
    /\ \A t \in Callers \ {1} : callers[t] = IdleCaller
    /\ _api_secret = Some("api-secret")

(* ============================ pure functions =========================== *)
\* A call of a pure function is a state [fn, stage |-> "call", in] that the
\* function's action turns into [fn, stage |-> "return", in, out].
Call(fn, in) == [fn |-> fn, stage |-> "call", in |-> in]

Returned(fn) == pure.fn = fn /\ pure.stage = "return"

Calling(fn) == pure.fn = fn /\ pure.stage = "call"

Result(out) == [fn |-> pure.fn, stage |-> "return", in |-> pure.in, out |-> out]

(* ------------------------------ strings -------------------------------- *)
LowerAlphabet == "abcdefghijklmnopqrstuvwxyz"
UpperAlphabet == "ABCDEFGHIJKLMNOPQRSTUVWXYZ"
Digits == "0123456789"

CharAt(s, i) == SubSeq(s, i, i)

\* the position of character c in alphabet a, 0 when it is not there
IndexIn(a, c) ==
    IF \E i \in 1..Len(a) : CharAt(a, i) = c
    THEN CHOOSE i \in 1..Len(a) : CharAt(a, i) = c
    ELSE 0

IsUpperChar(c) == IndexIn(UpperAlphabet, c) # 0
IsLowerChar(c) == IndexIn(LowerAlphabet, c) # 0

UpperChar(c) ==
    IF IsLowerChar(c) THEN CharAt(UpperAlphabet, IndexIn(LowerAlphabet, c)) ELSE c

LowerChar(c) ==
    IF IsUpperChar(c) THEN CharAt(LowerAlphabet, IndexIn(UpperAlphabet, c)) ELSE c

\* str.upper
RECURSIVE StrUpper(_)
StrUpper(s) == IF s = "" THEN "" ELSE UpperChar(Head(s)) \o StrUpper(Tail(s))

\* str.lower
RECURSIVE StrLower(_)
StrLower(s) == IF s = "" THEN "" ELSE LowerChar(Head(s)) \o StrLower(Tail(s))

\* An integer too wide for the checker's integers is kept as the sequence of
\* its decimal digits, most significant first; str(int) writes them out.
RECURSIVE IntStr(_)
IntStr(n) ==
    IF n = <<>> THEN "" ELSE CharAt(Digits, Head(n) + 1) \o IntStr(Tail(n))

(* --------------------- utils.py: request_signature --------------------- *)
\* A request body: a str, a dict of str to str (its items in order) or None.
StrBody(str) == [t |-> "str", s |-> str, items |-> <<>>]
DictBody(items) == [t |-> "dict", s |-> "", items |-> items]
NoneBody == [t |-> "None", s |-> "", items |-> <<>>]

\* json.dumps of a dict of str to str, with the default separators
RECURSIVE JsonItems(_)
JsonItems(items) ==
    IF items = <<>> THEN ""
    ELSE "\"" \o Head(items)[1] \o "\": \"" \o Head(items)[2] \o "\""
         \o (IF Len(items) > 1 THEN ", " ELSE "") \o JsonItems(Tail(items))

JsonDumps(items) == "{" \o JsonItems(items) \o "}"

\* what the f-string writes for the body once a dict has been serialized
BodyStr(body) ==
    CASE body.t = "dict" -> JsonDumps(body.items)
      [] body.t = "str" -> body.s
      [] OTHER -> "None"

\* hmac.new(key, msg, sha512).hexdigest(): the digest is not computed, it is
\* written as a term that is different for different keys or messages
HmacSha512Hex(key, msg) == "hmac-sha512{" \o key \o "}{" \o msg \o "}"

\* request_signature without the upper-casing of the method
request_signature_as_given(api_secret, method, path, body, timestamp, subaccount_id) ==
    LET payload == IntStr(timestamp) \o method \o path \o BodyStr(body)
    IN  HmacSha512Hex(api_secret,
            IF subaccount_id # None THEN payload \o subaccount_id[1] ELSE payload)

request_signature(api_secret, method, path, body, timestamp, subaccount_id) ==
    LET payload == IntStr(timestamp) \o StrUpper(method) \o path \o BodyStr(body)
    IN  HmacSha512Hex(api_secret,
            IF subaccount_id # None THEN payload \o subaccount_id[1] ELSE payload)

(* ---------------------- utils.py: generate_headers --------------------- *)
\* clock: the successive readings of the wall clock, in milliseconds
Headers3(api_key, signature, timestamp) ==
    [h \in {"X-VALR-API-KEY", "X-VALR-SIGNATURE", "X-VALR-TIMESTAMP"} |->
        CASE h = "X-VALR-API-KEY" -> api_key
          [] h = "X-VALR-SIGNATURE" -> signature
          [] OTHER -> IntStr(timestamp)]

WithHeader(headers, name, val) ==
    [h \in DOMAIN headers \cup {name} |-> IF h = name THEN val ELSE headers[h]]

\* generate_headers that reads the clock again for the timestamp header
generate_headers_two_clocks(api_key, api_secret, method, path, body, subaccount_id, clock) ==
    LET signature == request_signature(api_secret, method, path, body,
                                       clock[1], subaccount_id)
        headers == Headers3(api_key, signature, clock[2])
    IN  IF subaccount_id # None
        THEN WithHeader(headers, "X-VALR-SUB-ACCOUNT-ID", subaccount_id[1])
        ELSE headers

generate_headers(api_key, api_secret, method, path, body, subaccount_id, clock) ==
    LET timestamp == clock[1]
        signature == request_signature(api_secret, method, path, body,
                                       timestamp, subaccount_id)
        headers == Headers3(api_key, signature, timestamp)
    IN  IF subaccount_id # None
        THEN WithHeader(headers, "X-VALR-SUB-ACCOUNT-ID", subaccount_id[1])
        ELSE headers

(* ------------------------- the signer's inputs ------------------------- *)
GoldenSecret == "4961b74efac86b25cce8fbe4c9811c4c7a787b7a5996660afcc2e287ad864363"
GoldenTime1 == <<1, 5, 5, 8, 0, 1, 4, 4, 8, 6, 1, 8, 5>>
GoldenTime2 == <<1, 5, 5, 8, 0, 1, 7, 5, 2, 8, 9, 4, 6>>
GoldenBody2 ==
    DictBody(<< <<"customerOrderId", "ORDER-000001">>, <<"pair", "BTCZAR">>,
                <<"side", "BUY">>, <<"quoteAmount", "80000">> >>)

Secrets == {GoldenSecret, "another-secret"}
Methods == {"GET", "get", "POST", "Post", "DELETE"}
Paths == {"/v1/account/balances", "/v1/orders/market", "/ws/trade"}
Bodies == {StrBody(""), GoldenBody2, DictBody(<<>>), NoneBody}
Subaccounts == {None, Some("1234")}

SignatureInputs ==
    [api_secret : Secrets, method : Methods, path : Paths, body : Bodies,
     timestamp : {GoldenTime1, GoldenTime2}, subaccount_id : Subaccounts]

HeaderInputs ==
    [api_key : {"key-1"}, api_secret : Secrets, method : {"GET", "post"},
     path : Paths, body : {StrBody(""), GoldenBody2},
     subaccount_id : Subaccounts,
     clock : {<<GoldenTime1, GoldenTime1>>, <<GoldenTime1, GoldenTime2>>}]

call_request_signature ==
    /\ Calling("request_signature")
    /\ pure' = Result(request_signature(pure.in.api_secret, pure.in.method, pure.in.path,
                  pure.in.body, pure.in.timestamp,
                  pure.in.subaccount_id))
    /\ UNCHANGED <<pipelines, lock, callers, pipes, queue, delivered, handled, _api_secret>>

call_generate_headers ==
    /\ Calling("generate_headers")
    /\ pure' = Result(generate_headers(pure.in.api_key, pure.in.api_secret, pure.in.method,
                  pure.in.path, pure.in.body, pure.in.subaccount_id,
                  pure.in.clock))
    /\ UNCHANGED <<pipelines, lock, callers, pipes, queue, delivered, handled, _api_secret>>

SignInit ==
    /\ ConnectorInit
    /\ \/ \E i \in SignatureInputs : pure = Call("request_signature", i)
       \/ \E i \in HeaderInputs : pure = Call("generate_headers", i)

SignNext == call_request_signature \/ call_generate_headers

SignSpec == SignInit /\ [][SignNext]_vars

(* ----------------------------- JSON values ----------------------------- *)
\* A decoded JSON value is a record [t, v]: the tag t names the Python type,
\* v is the value; a dict is the sequence of its <<key, value>> items.
JNull == [t |-> "NoneType", v |-> 0]
JBool(b) == [t |-> "bool", v |-> b]
JInt(n) == [t |-> "int", v |-> n]
JStr(str) == [t |-> "str", v |-> str]
JList(items) == [t |-> "list", v |-> items]
JDict(items) == [t |-> "dict", v |-> items]

HasKey(dict, k) == \E i \in 1..Len(dict.v) : dict.v[i][1] = k

\* dict.get(k): the value under k, None when the key is absent
DictGet(dict, k) ==
    IF HasKey(dict, k)
    THEN dict.v[CHOOSE i \in 1..Len(dict.v) : dict.v[i][1] = k][2]
    ELSE JNull

\* the truth value Python's `if` gives a value
Truthy(val) ==
    CASE val.t = "NoneType" -> FALSE
      [] val.t = "bool" -> val.v
      [] val.t = "int" -> val.v # 0
      [] val.t = "str" -> val.v # ""
      [] OTHER -> val.v # <<>>

(* ----------------- rest_connector.py: _make_request -------------------- *)
NoHeaders == <<>>
NotJson == [t |-> "not json", v |-> 0]
NoResponse == [status_code |-> 0, body |-> JNull]

\* a body the exchange answers with when it reports an application error
ErrorBody(code) == JDict(<< <<"code", code>>, <<"message", JStr("rejected")>> >>)

ResponseBodies ==
    { JList(<<>>), JList(<<JDict(<< <<"currency", JStr("BTC")>> >>)>>),
      JDict(<< <<"id", JStr("order-1")>> >>), JDict(<<>>),
      ErrorBody(JInt(-11252)), ErrorBody(JStr("INVALID")),
      ErrorBody(JInt(0)), ErrorBody(JStr("")), ErrorBody(JNull),
      JInt(5), NotJson }

StatusCodes == {200, 202, 400}

Responses == [status_code : StatusCodes, body : ResponseBodies]

RestInputs ==
    [api_key : {None, Some("key-1")}, api_secret : {None, Some(GoldenSecret)},
     subaccount : Subaccounts, method : {"GET", "POST", "DELETE"},
     endpoint : {"account/balances", "orders"}, auth : BOOLEAN,
     json : {NoneBody, GoldenBody2},
     clock : {<<GoldenTime1, GoldenTime2>>}]

RestCall(in) ==
    [fn |-> "_make_request", stage |-> "call", in |-> in, headers |-> NoHeaders,
     sent |-> FALSE, response |-> NoResponse, exc |-> NoException,
     arg |-> JNull, out |-> JNull]

RestRaise(e, arg) == [pure EXCEPT !.stage = "raise", !.exc = e, !.arg = arg]
RestReturn(out) == [pure EXCEPT !.stage = "return", !.out = out]

\* _sign_request that signs nothing when a credential is missing
sign_request_unchecked(in) ==
    IF in.api_key = None \/ in.api_secret = None
    THEN [exc |-> NoException, headers |-> NoHeaders]
    ELSE [exc |-> NoException,
          headers |-> generate_headers(in.api_key[1], in.api_secret[1], in.method,
                          "/v1/" \o in.endpoint, in.json, in.subaccount, in.clock)]

sign_request(in) ==
    IF in.api_key = None \/ in.api_secret = None
    THEN [exc |-> "ValueError", headers |-> NoHeaders]
    ELSE LET payload == IF in.method \in {"GET", "POST"}
                        THEN (IF in.json = NoneBody THEN StrBody("") ELSE in.json)
                        ELSE in.json
         IN  [exc |-> NoException,
              headers |-> generate_headers(in.api_key[1], in.api_secret[1],
                              in.method, "/v1/" \o in.endpoint, payload,
                              in.subaccount, in.clock)]

\* _make_request up to the point where the request is handed to the session
make_request_sign ==
    /\ pure.fn = "_make_request"
    /\ pure.stage = "call"
    /\ LET signed == sign_request(pure.in)
       IN  pure' = IF pure.in.auth /\ signed.exc # NoException
                   THEN RestRaise(signed.exc, JNull)
                   ELSE [pure EXCEPT !.stage = "send",
                                     !.headers = IF pure.in.auth
                                                 THEN signed.headers
                                                 ELSE NoHeaders]
    /\ UNCHANGED <<pipelines, lock, callers, pipes, queue, delivered, handled, _api_secret>>

\* self._session.send: the request goes out and a response comes back
session_send(response) ==
    /\ pure.fn = "_make_request"
    /\ pure.stage = "send"
    /\ pure' = [pure EXCEPT !.stage = "response", !.sent = TRUE,
                            !.response = response]
    /\ UNCHANGED <<pipelines, lock, callers, pipes, queue, delivered, handled, _api_secret>>

\* self._session.send fails in the transport
session_send_fails ==
    /\ pure.fn = "_make_request"
    /\ pure.stage = "send"
    /\ pure' = [pure EXCEPT !.stage = "raise", !.sent = TRUE,
                            !.exc = "ConnectionError"]
    /\ UNCHANGED <<pipelines, lock, callers, pipes, queue, delivered, handled, _api_secret>>

\* error_code = response_json.get("code"); if error_code:
HasErrorCode(response_json) == Truthy(DictGet(response_json, "code"))

\* the part of _make_request that reads the response
read_response(method, response) ==
    LET response_json == response.body
    IN  CASE response_json = NotJson ->
               IF response.status_code >= 400 THEN RestRaise("HTTPError", JNull)
               ELSE IF response.status_code \in {200, 202} /\ method = "DELETE"
                    THEN RestReturn(JNull)
                    ELSE RestRaise("JSONDecodeError", JNull)
          [] response_json.t = "list" -> RestReturn(response_json)
          [] response_json.t = "dict" ->
               IF HasErrorCode(response_json)
               THEN RestRaise("RestException", response_json)
               ELSE RestReturn(response_json)
          [] OTHER -> RestRaise("TypeError", JNull)

make_request_response ==
    /\ pure.fn = "_make_request"
    /\ pure.stage = "response"
    /\ pure' = read_response(pure.in.method, pure.response)
    /\ UNCHANGED <<pipelines, lock, callers, pipes, queue, delivered, handled, _api_secret>>

RestInit ==
    /\ ConnectorInit
    /\ \E in \in RestInputs : pure = RestCall(in)

RestNext ==
    \/ make_request_sign
    \/ \E response \in Responses : session_send(response)
    \/ session_send_fails
    \/ make_request_response

RestSpec == RestInit /\ [][RestNext]_vars

(* ------------- messages/core.py: _timestamp_to_datetime ---------------- *)
\* the result of a decoding step that raises the exception e
Err(e) == [t |-> "raise", v |-> e]
IsErr(val) == val.t = "raise"

\* the decimal digits of a natural number of the checker
RECURSIVE DigitsOf(_)
DigitsOf(n) == IF n < 10 THEN <<n>> ELSE Append(DigitsOf(n \div 10), n % 10)

\* the natural number written by at most nine digits
RECURSIVE NatOf(_)
NatOf(ds) == IF ds = <<>> THEN 0 ELSE 10 * NatOf(SubSeq(ds, 1, Len(ds) - 1)) + ds[Len(ds)]

\* a <= b for naturals kept as digits without leading zeros
RECURSIVE DigitsLE(_, _)
DigitsLE(a, b) ==
    IF Len(a) # Len(b) THEN Len(a) < Len(b)
    ELSE IF a = <<>> THEN TRUE
    ELSE IF Head(a) # Head(b) THEN Head(a) < Head(b)
    ELSE DigitsLE(Tail(a), Tail(b))

\* timestamp / 10^k: the whole seconds and the fraction in microseconds
WholePart(ds, k) == IF Len(ds) <= k THEN <<0>> ELSE SubSeq(ds, 1, Len(ds) - k)

FractionDigits(ds, k) ==
    IF Len(ds) >= k THEN SubSeq(ds, Len(ds) - k + 1, Len(ds))
    ELSE [i \in 1..k |-> IF i <= k - Len(ds) THEN 0 ELSE ds[i - (k - Len(ds))]]

Microseconds(ds, k) ==
    CASE k = 0 -> 0
      [] k = 3 -> 1000 * NatOf(FractionDigits(ds, 3))
      [] k = 6 -> NatOf(FractionDigits(ds, 6))
      [] OTHER -> LET ns == NatOf(FractionDigits(ds, 9))
                  IN  (ns + 500) \div 1000

\* long division of a natural kept as digits by the seconds of a day
RECURSIVE DivModDay(_, _, _)
DivModDay(ds, q, r) ==
    IF ds = <<>> THEN [days |-> q, secs |-> r]
    ELSE LET n == 10 * r + Head(ds)
         IN  DivModDay(Tail(ds), 10 * q + n \div 86400, n % 86400)

\* the civil date of a day number counted from 1970-01-01
CivilFromDays(days) ==
    LET z == days + 719468
        era == z \div 146097
        doe == z - era * 146097
        yoe == (doe - doe \div 1460 + doe \div 36524 - doe \div 146096) \div 365
        doy == doe - (365 * yoe + yoe \div 4 - yoe \div 100)
        mp == (5 * doy + 2) \div 153
        day == doy - (153 * mp + 2) \div 5 + 1
        month == IF mp < 10 THEN mp + 3 ELSE mp - 9
        year == yoe + era * 400 + (IF month <= 2 THEN 1 ELSE 0)
    IN  <<year, month, day>>

\* 9999-12-31T23:59:59, the last second a datetime holds
MaxDatetimeSeconds == <<2, 5, 3, 4, 0, 2, 3, 0, 0, 7, 9, 9>>
\* the last second whose year the C library's gmtime can hold
MaxGmtimeSeconds == <<6, 7, 7, 6, 8, 0, 3, 6, 1, 9, 1, 6, 7, 6, 7, 9, 9>>
\* the largest time_t
MaxTimeT == <<9, 2, 2, 3, 3, 7, 2, 0, 3, 6, 8, 5, 4, 7, 7, 5, 8, 0, 7>>

Datetime(year, month, day, hour, minute, second, microsecond) ==
    [t |-> "datetime", v |-> <<year, month, day, hour, minute, second, microsecond>>]

\* datetime.fromtimestamp(seconds + microsecond / 10^6, tz=utc) on CPython
\* and Linux: a datetime, or the exception of the first limit that is passed
fromtimestamp(seconds, microsecond) ==
    IF DigitsLE(seconds, MaxDatetimeSeconds)
    THEN LET dm == DivModDay(seconds, 0, 0)
             ymd == CivilFromDays(dm.days)
         IN  Datetime(ymd[1], ymd[2], ymd[3], dm.secs \div 3600,
                      (dm.secs % 3600) \div 60, dm.secs % 60, microsecond)
    ELSE IF DigitsLE(seconds, MaxGmtimeSeconds) THEN Err("ValueError: out of range")
    ELSE IF DigitsLE(seconds, MaxTimeT) THEN Err("OSError")
    ELSE Err("OverflowError")

\* the powers of ten of the resolutions 1e0, 1e3, 1e6, 1e9
Resolutions == <<0, 3, 6, 9>>

\* the loop of _timestamp_to_datetime from the i-th resolution on: only a
\* ValueError that says "out of range" goes on to the next resolution
RECURSIVE timestamp_to_datetime_from(_, _)
timestamp_to_datetime_from(timestamp, i) ==
    IF i > Len(Resolutions) THEN Err("ValueError")
    ELSE LET r == fromtimestamp(WholePart(timestamp, Resolutions[i]),
                                Microseconds(timestamp, Resolutions[i]))
         IN  IF r = Err("ValueError: out of range")
             THEN timestamp_to_datetime_from(timestamp, i + 1)
             ELSE r

timestamp_to_datetime(timestamp) == timestamp_to_datetime_from(timestamp, 1)

\* epochs: a second count, written out in seconds, milliseconds,
\* microseconds or nanoseconds
RECURSIVE StripZeros(_)
StripZeros(ds) == IF Len(ds) > 1 /\ Head(ds) = 0 THEN StripZeros(Tail(ds)) ELSE ds

GoldenSeconds == DigitsOf(1558014486)

EpochSeconds ==
    { DigitsOf(0), DigitsOf(1), DigitsOf(86399), DigitsOf(951782400),
      GoldenSeconds, DigitsOf(2147483647),
      <<9, 9, 9, 9, 9, 9, 9, 9, 9, 9, 9>>,
      MaxDatetimeSeconds, <<2, 5, 3, 4, 0, 2, 3, 0, 0, 8, 0, 0>> }

EpochFractions ==
    { <<>>, <<0, 0, 0>>, <<1, 8, 5>>, <<1, 8, 5, 0, 0, 0>>, <<9, 9, 9, 9, 9, 9>>,
      <<1, 8, 5, 0, 0, 0, 0, 0, 0>>, <<0, 0, 0, 0, 0, 0, 0, 0, 0, 0, 0, 0>> }

Timestamps == { StripZeros(sec \o frac) : sec \in EpochSeconds, frac \in EpochFractions }

call_timestamp_to_datetime ==
    /\ Calling("_timestamp_to_datetime")
    /\ pure' = Result(timestamp_to_datetime(pure.in))
    /\ UNCHANGED <<pipelines, lock, callers, pipes, queue, delivered, handled, _api_secret>>

TimeInit ==
    /\ ConnectorInit
    /\ \E timestamp \in Timestamps : pure = Call("_timestamp_to_datetime", timestamp)

TimeNext == call_timestamp_to_datetime

TimeSpec == TimeInit /\ [][TimeNext]_vars

(* ------------- messages/core.py: key normalization --------------------- *)
\* str.islower: some cased character and no upper-case one
RECURSIVE HasUpper(_)
HasUpper(s) == s # "" /\ (IsUpperChar(Head(s)) \/ HasUpper(Tail(s)))

RECURSIVE HasLower(_)
HasLower(s) == s # "" /\ (IsLowerChar(Head(s)) \/ HasLower(Tail(s)))

islower(s) == HasLower(s) /\ ~HasUpper(s)

\* str.replace(old, new), old not empty
RECURSIVE StrReplace(_, _, _)
StrReplace(s, old, new) ==
    IF Len(s) < Len(old) THEN s
    ELSE IF SubSeq(s, 1, Len(old)) = old
         THEN new \o StrReplace(SubSeq(s, Len(old) + 1, Len(s)), old, new)
         ELSE Head(s) \o StrReplace(Tail(s), old, new)

\* str.lstrip(c) for one character c
RECURSIVE LStrip(_, _)
LStrip(s, c) == IF s # "" /\ Head(s) = c THEN LStrip(Tail(s), c) ELSE s

\* the loop of _convert_to_snake_case over the characters
RECURSIVE UnderscoreUpper(_)
UnderscoreUpper(s) ==
    IF s = "" THEN ""
    ELSE (IF IsUpperChar(Head(s)) THEN "_" \o LowerChar(Head(s)) ELSE Head(s))
         \o UnderscoreUpper(Tail(s))

\* _convert_to_snake_case that leaves the key as it is
convert_to_snake_case_as_given(camel_case) == camel_case

convert_to_snake_case(camel_case) ==
    IF islower(camel_case) THEN camel_case
    ELSE LStrip(StrReplace(UnderscoreUpper(camel_case), "sub_account", "subaccount"), "_")

\* d[key] = val on the items of a dict: an existing key keeps its place
RECURSIVE DictSet(_, _, _)
DictSet(items, key, val) ==
    IF items = <<>> THEN << <<key, val>> >>
    ELSE IF Head(items)[1] = key THEN << <<key, val>> >> \o Tail(items)
    ELSE <<Head(items)>> \o DictSet(Tail(items), key, val)

\* _apply_snake_case on the items of a dict, done is the dict built so far
RECURSIVE apply_snake_case_from(_, _)
apply_snake_case_from(items, done) ==
    IF items = <<>> THEN done
    ELSE LET key == Head(items)[1]
             val == Head(items)[2]
             snake_val == IF val.t = "dict"
                          THEN JDict(apply_snake_case_from(val.v, <<>>))
                          ELSE val
         IN  apply_snake_case_from(Tail(items),
                 DictSet(done, convert_to_snake_case(key), snake_val))

apply_snake_case(camel_dict) == JDict(apply_snake_case_from(camel_dict.v, <<>>))

(* ---------------- messages: the declared record types ------------------ *)
\* a type hint: its kind, the name of an enum or record class, the argument
\* of Optional[...] and List[...]
Ty(k, name, inner) == [k |-> k, name |-> name, inner |-> inner]
TStr == Ty("str", "", <<>>)
TInt == Ty("int", "", <<>>)
TBool == Ty("bool", "", <<>>)
TDecimal == Ty("Decimal", "", <<>>)
TDatetime == Ty("datetime", "", <<>>)
TEnum(name) == Ty("Enum", name, <<>>)
TRecord(name) == Ty("MessageElement", name, <<>>)
TOptional(inner) == Ty("Optional", "", <<inner>>)
TList(inner) == Ty("List", "", <<inner>>)
\* first | second
TUnion(first, second) == Ty("Union", "", <<first, second>>)

\* the values of the members of an enum
EnumValues(name) ==
    CASE name = "OrderSide" -> {"BUY", "SELL"}
      [] name = "OrderType" -> {"LIMIT_POST_ONLY", "MARKET", "LIMIT", "SIMPLE",
                                "STOP_LOSS_LIMIT", "TAKE_PROFIT_LIMIT"}

RecordClasses ==
    {"AggregatedOrderbookLevel", "AggregatedOrderbook", "PairOrderTypes",
     "WithdrawalAddress", "ApiKeyInfo", "SubaccountInfo", "SubaccountBalance",
     "WalletBalance", "CurrencyInfo", "CurrencyPairInfo"}

\* get_type_hints(cls.__init__) without "return": the fields in order
type_hints(cls) ==
    CASE cls = "AggregatedOrderbookLevel" ->
           << <<"side", TEnum("OrderSide")>>, <<"quantity", TDecimal>>,
              <<"price", TDecimal>>, <<"currency_pair", TStr>>,
              <<"order_count", TOptional(TInt)>> >>
      [] cls = "AggregatedOrderbook" ->
           << <<"asks", TList(TRecord("AggregatedOrderbookLevel"))>>,
              <<"bids", TList(TRecord("AggregatedOrderbookLevel"))>>,
              <<"last_change", TDatetime>>, <<"sequence_number", TInt>> >>
      [] cls = "PairOrderTypes" ->
           << <<"currency_pair", TStr>>,
              <<"order_types", TList(TEnum("OrderType"))>> >>
      [] cls = "WithdrawalAddress" ->
           << <<"currency", TStr>>, <<"address", TStr>> >>
      [] cls = "ApiKeyInfo" ->
           << <<"label", TStr>>, <<"permissions", TList(TStr)>>,
              <<"added_at", TDatetime>>,
              <<"allowed_ip_address_cidr", TOptional(TStr)>>,
              <<"allowed_withdraw_address_list",
                TOptional(TList(TRecord("WithdrawalAddress")))>>,
              <<"is_subaccount", TBool>> >>
      [] cls = "SubaccountInfo" ->
           << <<"label", TStr>>, <<"id", TInt>> >>
      [] cls = "SubaccountBalance" ->
           << <<"account", TRecord("SubaccountInfo")>>,
              <<"balances", TList(TRecord("WalletBalance"))>> >>
      [] cls = "WalletBalance" ->
           << <<"currency", TStr>>, <<"available", TDecimal>>,
              <<"reserved", TDecimal>>, <<"total", TDecimal>>,
              <<"updated_at", TOptional(TDatetime)>>,
              <<"lend_reserved", TDecimal>>, <<"borrow_reserved", TDecimal>>,
              <<"borrowed_amount", TDecimal>> >>
      [] cls = "CurrencyInfo" ->
           << <<"symbol", TStr>>, <<"decimal_places", TInt>>, <<"is_active", TBool>>,
              <<"short_name", TStr>>, <<"long_name", TStr>>,
              <<"collateral", TOptional(TBool)>>,
              <<"collateral_weight", TOptional(TDecimal)>>,
              <<"id", TOptional(TInt)>>,
              <<"payment_reference_field_name", TOptional(TStr)>>,
              <<"supported_withdraw_decimal_places", TOptional(TInt)>>,
              <<"withdraw_decimal_places", TOptional(TInt)>> >>
      [] cls = "CurrencyPairInfo" ->
           << <<"id", TOptional(TInt)>>, <<"symbol", TStr>>,
              <<"base_currency", TUnion(TStr, TRecord("CurrencyInfo"))>>,
              <<"quote_currency", TUnion(TStr, TRecord("CurrencyInfo"))>>,
              <<"short_name", TStr>>, <<"exchange", TOptional(TStr)>>,
              <<"active", TBool>>, <<"tick_size", TDecimal>>,
              <<"base_decimal_places", TInt>>, <<"margin_trading_allowed", TBool>>,
              <<"min_base_amount", TDecimal>>, <<"max_base_amount", TDecimal>>,
              <<"min_quote_amount", TDecimal>>, <<"max_quote_amount", TDecimal>> >>

FieldNames(cls) == { type_hints(cls)[i][1] : i \in 1..Len(type_hints(cls)) }

(* ------------- messages/core.py: _parse_to_desired_type ---------------- *)
\* The wire values are None, bool, int, str, list and dict. A decoded value
\* is again a record [t, v]: t is the name of its class.
IsDigitChar(c) == IndexIn(Digits, c) # 0

RECURSIVE IsDigits(_)
IsDigits(s) == s = "" \/ (IsDigitChar(Head(s)) /\ IsDigits(Tail(s)))

\* str.isdecimal
isdecimal(s) == s # "" /\ IsDigits(s)

\* the digits a string of digits writes
RECURSIVE StrDigits(_)
StrDigits(s) ==
    IF s = "" THEN <<>> ELSE <<IndexIn(Digits, Head(s)) - 1>> \o StrDigits(Tail(s))

StrNat(s) == NatOf(StrDigits(s))

\* str(n) of an int
IntToStr(n) == IF n < 0 THEN "-" \o IntStr(DigitsOf(-n)) ELSE IntStr(DigitsOf(n))

\* repr(obj) and str(obj) of a wire value
RECURSIVE PyRepr(_)
RECURSIVE PyReprItems(_, _)
PyRepr(obj) ==
    CASE obj.t = "NoneType" -> "None"
      [] obj.t = "bool" -> IF obj.v THEN "True" ELSE "False"
      [] obj.t = "int" -> IntToStr(obj.v)
      [] obj.t = "str" -> "'" \o obj.v \o "'"
      [] obj.t = "list" -> "[" \o PyReprItems(obj.v, FALSE) \o "]"
      [] obj.t = "dict" -> "{" \o PyReprItems(obj.v, TRUE) \o "}"

PyReprItems(items, keyed) ==
    IF items = <<>> THEN ""
    ELSE (IF keyed
          THEN "'" \o Head(items)[1] \o "': " \o PyRepr(Head(items)[2])
          ELSE PyRepr(Head(items)))
         \o (IF Len(items) > 1 THEN ", " ELSE "")
         \o PyReprItems(Tail(items), keyed)

PyStr(obj) == IF obj.t = "str" THEN obj.v ELSE PyRepr(obj)

\* a decimal numeral: an optional sign, digits, at most one point
IsNumeral(s) ==
    LET body == IF s # "" /\ Head(s) \in {"-", "+"} THEN Tail(s) ELSE s
        points == { i \in 1..Len(body) : CharAt(body, i) = "." }
    IN  /\ Cardinality(points) <= 1
        /\ \A i \in 1..Len(body) : i \in points \/ IsDigitChar(CharAt(body, i))
        /\ Len(body) > Cardinality(points)

\* desired_type(obj) for the classes str, int and Decimal
Construct(k, obj) ==
    CASE k = "str" -> JStr(PyStr(obj))
      [] k = "int" ->
           IF obj.t = "str"
           THEN (IF isdecimal(obj.v) THEN JInt(StrNat(obj.v))
                 ELSE IF Len(obj.v) > 1 /\ Head(obj.v) = "-" /\ isdecimal(Tail(obj.v))
                      THEN JInt(0 - StrNat(Tail(obj.v)))
                      ELSE Err("ValueError"))
           ELSE Err("TypeError")
      [] k = "Decimal" ->
           CASE obj.t = "str" ->
                  IF IsNumeral(obj.v) THEN [t |-> "Decimal", v |-> obj.v]
                  ELSE Err("InvalidOperation")
             [] obj.t = "int" -> [t |-> "Decimal", v |-> IntToStr(obj.v)]
             [] obj.t = "bool" -> [t |-> "Decimal", v |-> IF obj.v THEN "1" ELSE "0"]
             [] OTHER -> Err("TypeError")

\* isinstance(obj, desired_type) for a wire value; a bool is an int
isinstance(obj, k) ==
    \/ k = "str" /\ obj.t = "str"
    \/ k = "int" /\ obj.t \in {"int", "bool"}
    \/ k = "bool" /\ obj.t = "bool"

\* str.rstrip(c) for one character c
RECURSIVE RStrip(_, _)
RStrip(s, c) ==
    IF s # "" /\ CharAt(s, Len(s)) = c THEN RStrip(SubSeq(s, 1, Len(s) - 1), c) ELSE s

Contains(s, c) == \E i \in 1..Len(s) : CharAt(s, i) = c

RECURSIVE Zeros(_)
Zeros(n) == IF n <= 0 THEN "" ELSE "0" \o Zeros(n - 1)

DaysInMonth(year, month) ==
    IF month = 2
    THEN (IF year % 4 = 0 /\ (year % 100 # 0 \/ year % 400 = 0) THEN 29 ELSE 28)
    ELSE IF month \in {4, 6, 9, 11} THEN 30 ELSE 31

\* datetime.strptime(s, "%Y-%m-%dT%H:%M:%S.%f") of a string of 26 characters
\* written with two-digit fields, then replace(tzinfo=utc)
strptime(s) ==
    LET num(i, j) == StrNat(SubSeq(s, i, j))
        year == num(1, 4)
        month == num(6, 7)
        day == num(9, 10)
        layout ==
            /\ Len(s) = 26
            /\ \A i \in 1..26 :
                  CASE i \in {5, 8} -> CharAt(s, i) = "-"
                    [] i = 11 -> CharAt(s, i) = "T"
                    [] i \in {14, 17} -> CharAt(s, i) = ":"
                    [] i = 20 -> CharAt(s, i) = "."
                    [] OTHER -> IsDigitChar(CharAt(s, i))
    IN  IF /\ layout
           /\ year >= 1 /\ month \in 1..12 /\ day \in 1..DaysInMonth(year, month)
           /\ num(12, 13) < 24 /\ num(15, 16) < 60 /\ num(18, 19) < 60
        THEN Datetime(year, month, day, num(12, 13), num(15, 16), num(18, 19),
                      num(21, 26))
        ELSE Err("ValueError")

\* the datetime branch for a str that is not a number
parse_datetime_string(str) ==
    LET stripped == RStrip(str, "Z")
        pointed == IF ~Contains(stripped, ".")
                   THEN SubSeq(stripped, 1, IF Len(stripped) < 19 THEN Len(stripped) ELSE 19)
                        \o ".000"
                   ELSE stripped
        sized == IF Len(pointed) > 26 THEN SubSeq(pointed, 1, 26)
                 ELSE pointed \o Zeros(26 - Len(pointed))
    IN  strptime(sized)

\* _timestamp_to_datetime of an int of the checker
timestamp_of_int(n) ==
    IF n >= 0 THEN timestamp_to_datetime(DigitsOf(n))
    ELSE LET days == n \div 86400
             secs == n % 86400
             ymd == CivilFromDays(days)
         IN  Datetime(ymd[1], ymd[2], ymd[3], secs \div 3600, (secs % 3600) \div 60,
                      secs % 60, 0)

\* the datetime branch of _parse_to_desired_type
parse_datetime(obj) ==
    CASE obj.t = "int" -> timestamp_of_int(obj.v)
      [] obj.t = "bool" -> timestamp_of_int(IF obj.v THEN 1 ELSE 0)
      [] obj.t = "str" ->
           IF isdecimal(obj.v) THEN timestamp_to_datetime(StripZeros(StrDigits(obj.v)))
           ELSE parse_datetime_string(obj.v)
      [] OTHER -> Err("TypeError")

\* str.replace(c, d) for single characters
RECURSIVE ReplaceChar(_, _, _)
ReplaceChar(s, c, d) ==
    IF s = "" THEN ""
    ELSE (IF Head(s) = c THEN d ELSE Head(s)) \o ReplaceChar(Tail(s), c, d)

EnumMember(name, val) == [t |-> name, v |-> val]

\* the Enum branch without the second, normalized lookup
parse_enum_exact(obj, name) ==
    IF obj.t # "str" THEN Err("TypeError")
    ELSE IF obj.v \in EnumValues(name) THEN EnumMember(name, obj.v)
    ELSE Err("ValueError")

\* the Enum branch of _parse_to_desired_type
parse_enum(obj, name) ==
    IF obj.t # "str" THEN Err("TypeError")
    ELSE IF obj.v \in EnumValues(name) THEN EnumMember(name, obj.v)
    ELSE LET normalized == ReplaceChar(ReplaceChar(StrUpper(obj.v), "-", "_"), " ", "_")
         IN  IF normalized \in EnumValues(name) THEN EnumMember(name, normalized)
             ELSE Err("ValueError")

\* the bool branch of _parse_to_desired_type
parse_bool(obj) ==
    IF obj.t = "str" THEN JBool(StrLower(obj.v) = "true") ELSE Err("TypeError")

\* utils.parse_to_bool: a bool as it is, a str by its lower-cased text, None
\* as None, anything else raises
parse_to_bool(raw_bool) ==
    IF raw_bool.t = "bool" THEN raw_bool
    ELSE IF raw_bool.t = "str" THEN JBool(StrLower(raw_bool.v) = "true")
    ELSE IF raw_bool = JNull THEN JNull
    ELSE Err("TypeError")

\* the test of line 82 that lets None through for every type
accepts_none_always(desired_type) == TRUE

\* type_name.startswith("typing.Optional")
accepts_none(desired_type) == desired_type.k = "Optional"

\* what `for item in obj` goes through: the items of a list, the keys of a
\* dict, the characters of a str; nothing else can be iterated
Iterable(obj) == obj.t \in {"list", "dict", "str"}

Iterate(obj) ==
    CASE obj.t = "list" -> obj.v
      [] obj.t = "dict" -> [i \in 1..Len(obj.v) |-> JStr(obj.v[i][1])]
      [] obj.t = "str" -> [i \in 1..Len(obj.v) |-> JStr(CharAt(obj.v, i))]

\* the keys of the normalized payload that are no declared field, none at all
unexpected_args_ignored(cls, raw) == {}

\* unexpected_args of from_raw
unexpected_args(cls, raw) ==
    { raw.v[i][1] : i \in 1..Len(raw.v) } \ FieldNames(cls)

RECURSIVE parse_to_desired_type(_, _)
RECURSIVE parse_items(_, _, _)
RECURSIVE parse_kwargs(_, _, _)
RECURSIVE MessageElement_from_raw(_, _)

parse_to_desired_type(obj, desired_type) ==
    IF obj.t = "NoneType" /\ ~accepts_none(desired_type) THEN Err("TypeError")
    ELSE IF desired_type.k = "Optional"
    THEN (IF obj.t = "NoneType" THEN JNull
          ELSE parse_to_desired_type(obj, desired_type.inner[1]))
    ELSE IF desired_type.k = "List"
    THEN (IF Iterable(obj)
          THEN parse_items(Iterate(obj), desired_type.inner[1], <<>>)
          ELSE Err("TypeError"))
    ELSE IF desired_type.k = "Union"
    THEN (IF \E i \in 1..Len(desired_type.inner) :
                isinstance(obj, desired_type.inner[i].k)
          THEN obj
          ELSE Err("TypeError"))
    ELSE IF isinstance(obj, desired_type.k) THEN obj
    ELSE IF desired_type.k = "Enum" THEN parse_enum(obj, desired_type.name)
    ELSE IF desired_type.k = "bool" THEN parse_bool(obj)
    ELSE IF desired_type.k = "datetime" THEN parse_datetime(obj)
    ELSE IF desired_type.k = "MessageElement"
    THEN (IF obj.t = "dict" THEN MessageElement_from_raw(desired_type.name, obj)
          ELSE Err("TypeError"))
    ELSE Construct(desired_type.k, obj)

\* the list comprehension of the List branch; the first failure ends it
parse_items(items, inner_type, parsed) ==
    IF items = <<>> THEN JList(parsed)
    ELSE LET result == parse_to_desired_type(Head(items), inner_type)
         IN  IF IsErr(result) THEN result
             ELSE parse_items(Tail(items), inner_type, Append(parsed, result))

\* the loop of from_raw over the type hints; the first failure ends it
parse_kwargs(hints, raw, parsed_kwargs) ==
    IF hints = <<>> THEN [t |-> "kwargs", v |-> parsed_kwargs]
    ELSE LET param_name == Head(hints)[1]
             result == parse_to_desired_type(DictGet(raw, param_name), Head(hints)[2])
         IN  IF IsErr(result) THEN result
             ELSE parse_kwargs(Tail(hints), raw,
                               Append(parsed_kwargs, <<param_name, result>>))

\* MessageElement.from_raw: the record [t |-> cls, v |-> its fields], or the
\* exception it raises
MessageElement_from_raw(cls, raw) ==
    IF raw.t # "dict" THEN Err("AttributeError")
    ELSE LET snake == apply_snake_case(raw)
         IN  IF unexpected_args(cls, snake) # {} THEN Err("ValueError")
             ELSE LET parsed_kwargs == parse_kwargs(type_hints(cls), snake, <<>>)
                  IN  IF IsErr(parsed_kwargs) THEN parsed_kwargs
                      ELSE [t |-> cls, v |-> parsed_kwargs.v]

(* ------------------------ the decoder's inputs ------------------------- *)
\* a payload of each record class as the exchange sends it, keys in
\* snake_case
LevelPayload(side) ==
    JDict(<< <<"side", JStr(side)>>, <<"quantity", JStr("0.5")>>,
             <<"price", JStr("9500")>>, <<"currency_pair", JStr("BTCZAR")>>,
             <<"order_count", JInt(3)>> >>)

WithdrawalAddressPayload ==
    JDict(<< <<"currency", JStr("BTC")>>, <<"address", JStr("bc1q")>> >>)

SubaccountInfoPayload == JDict(<< <<"label", JStr("main")>>, <<"id", JInt(12)>> >>)

WalletBalancePayload ==
    JDict(<< <<"currency", JStr("ZAR")>>, <<"available", JStr("10.5")>>,
             <<"reserved", JStr("0")>>, <<"total", JStr("10.5")>>,
             <<"updated_at", JStr("2019-05-16T13:48:06.185Z")>>,
             <<"lend_reserved", JStr("0")>>, <<"borrow_reserved", JStr("0")>>,
             <<"borrowed_amount", JStr("0")>> >>)

CurrencyInfoPayload ==
    JDict(<< <<"symbol", JStr("BTC")>>, <<"decimal_places", JInt(8)>>,
             <<"is_active", JBool(TRUE)>>, <<"short_name", JStr("BTC")>>,
             <<"long_name", JStr("Bitcoin")>>, <<"collateral", JStr("True")>>,
             <<"collateral_weight", JStr("0.95")>>, <<"id", JInt(1)>>,
             <<"payment_reference_field_name", JNull>>,
             <<"supported_withdraw_decimal_places", JInt(8)>>,
             <<"withdraw_decimal_places", JStr("8")>> >>)

CurrencyPairInfoPayload(base_currency) ==
    JDict(<< <<"id", JInt(1)>>, <<"symbol", JStr("BTCZAR")>>,
             <<"base_currency", base_currency>>, <<"quote_currency", JStr("ZAR")>>,
             <<"short_name", JStr("BTC/ZAR")>>, <<"exchange", JStr("VALR")>>,
             <<"active", JBool(TRUE)>>, <<"tick_size", JStr("1")>>,
             <<"base_decimal_places", JInt(8)>>,
             <<"margin_trading_allowed", JBool(FALSE)>>,
             <<"min_base_amount", JStr("0.0001")>>, <<"max_base_amount", JStr("2")>>,
             <<"min_quote_amount", JStr("10")>>, <<"max_quote_amount", JInt(100000)>> >>)

CanonicalPayload(cls) ==
    CASE cls = "AggregatedOrderbookLevel" -> LevelPayload("BUY")
      [] cls = "AggregatedOrderbook" ->
           JDict(<< <<"asks", JList(<<LevelPayload("sell")>>)>>,
                    <<"bids", JList(<<LevelPayload("buy")>>)>>,
                    <<"last_change", JStr("2019-05-16T13:48:06.185Z")>>,
                    <<"sequence_number", JInt(7)>> >>)
      [] cls = "PairOrderTypes" ->
           JDict(<< <<"currency_pair", JStr("BTCZAR")>>,
                    <<"order_types", JList(<<JStr("LIMIT"), JStr("limit-post-only")>>)>> >>)
      [] cls = "WithdrawalAddress" -> WithdrawalAddressPayload
      [] cls = "ApiKeyInfo" ->
           JDict(<< <<"label", JStr("bot")>>,
                    <<"permissions", JList(<<JStr("View access")>>)>>,
                    <<"added_at", JInt(1558014486)>>,
                    <<"allowed_ip_address_cidr", JStr("10.0.0.1/32")>>,
                    <<"allowed_withdraw_address_list",
                      JList(<<WithdrawalAddressPayload>>)>>,
                    <<"is_subaccount", JBool(FALSE)>> >>)
      [] cls = "SubaccountInfo" -> SubaccountInfoPayload
      [] cls = "SubaccountBalance" ->
           JDict(<< <<"account", SubaccountInfoPayload>>,
                    <<"balances", JList(<<WalletBalancePayload>>)>> >>)
      [] cls = "WalletBalance" -> WalletBalancePayload
      [] cls = "CurrencyInfo" -> CurrencyInfoPayload
      [] cls = "CurrencyPairInfo" -> CurrencyPairInfoPayload(JStr("BTC"))

RemoveAt(seq, i) == SubSeq(seq, 1, i - 1) \o SubSeq(seq, i + 1, Len(seq))

\* the payloads that differ from val in one place, at any depth: a key
\* removed, a value replaced by null, a key added that no record declares
RECURSIVE Variants(_)
Variants(val) ==
    CASE val.t = "dict" ->
           { JDict(RemoveAt(val.v, i)) : i \in 1..Len(val.v) }
           \cup { JDict([val.v EXCEPT ![i] = <<val.v[i][1], JNull>>]) : i \in 1..Len(val.v) }
           \cup { JDict(Append(val.v, <<"unknown_key", JStr("x")>>)) }
           \cup UNION { { JDict([val.v EXCEPT ![i] = <<val.v[i][1], w>>]) :
                            w \in Variants(val.v[i][2]) } : i \in 1..Len(val.v) }
      [] val.t = "list" ->
           UNION { { JList([val.v EXCEPT ![i] = w]) : w \in Variants(val.v[i]) } :
                     i \in 1..Len(val.v) }
      [] OTHER -> {}

SnakePayloads(cls) == {CanonicalPayload(cls)} \cup Variants(CanonicalPayload(cls))

\* a snake_case key written in camelCase
RECURSIVE ToCamel(_)
ToCamel(key) ==
    IF key = "" THEN ""
    ELSE IF Head(key) = "_" /\ Len(key) > 1
         THEN UpperChar(CharAt(key, 2)) \o ToCamel(SubSeq(key, 3, Len(key)))
         ELSE Head(key) \o ToCamel(Tail(key))

KeyStyles == {"snake_case", "camelCase", "PascalCase", "mixed"}

\* the i-th key of a dict in a style; "mixed" alternates camelCase and
\* snake_case from key to key
RecaseKey(key, style, i) ==
    CASE style = "camelCase" -> ToCamel(key)
      [] style = "PascalCase" -> UpperChar(Head(ToCamel(key))) \o Tail(ToCamel(key))
      [] style = "mixed" -> IF i % 2 = 1 THEN ToCamel(key) ELSE key
      [] OTHER -> key

\* the payload with the keys of every dict in it written in a style
RECURSIVE Recase(_, _)
Recase(val, style) ==
    CASE val.t = "dict" ->
           JDict([i \in 1..Len(val.v) |->
                    <<RecaseKey(val.v[i][1], style, i), Recase(val.v[i][2], style)>>])
      [] val.t = "list" -> JList([i \in 1..Len(val.v) |-> Recase(val.v[i], style)])
      [] OTHER -> val

\* a currency pair whose base currency is written out as a record
UnionPayloads ==
    { CurrencyPairInfoPayload(CurrencyInfoPayload),
      CurrencyPairInfoPayload(JDict(<< <<"symbol", JStr("BTC")>> >>)),
      CurrencyPairInfoPayload(JInt(1)) }

\* a payload in camelCase that holds one field a second time, under its
\* snake_case key, with the same value or another one
CollisionPayloads(cls) ==
    LET camel == Recase(CanonicalPayload(cls), "camelCase")
        snake == CanonicalPayload(cls)
    IN  { JDict(Append(camel.v, <<snake.v[i][1], val>>)) :
            i \in { j \in 1..Len(snake.v) : camel.v[j][1] # snake.v[j][1] },
            val \in {JStr("ETHZAR"), JStr("1")} }

FromRawInputs ==
    UNION { { [cls |-> cls, raw |-> Recase(val, style)] :
                val \in SnakePayloads(cls), style \in KeyStyles } :
            cls \in RecordClasses }
    \cup { [cls |-> "CurrencyPairInfo", raw |-> Recase(val, style)] :
             val \in UnionPayloads, style \in KeyStyles }
    \cup UNION { { [cls |-> cls, raw |-> val] : val \in CollisionPayloads(cls) } :
                 cls \in RecordClasses }

\* wire values for a field of an enum type
EnumWireValues ==
    { JStr("buy"), JStr("BUY"), JStr("Sell"), JStr("unknown-side"), JStr(""),
      JStr("limit-post-only"), JStr("stop loss limit"), JStr("LIMIT"),
      JStr("Take_Profit-Limit"), JInt(1), JBool(TRUE), JNull,
      JList(<<JStr("BUY")>>), JDict(<< <<"side", JStr("BUY")>> >>) }

BoolWireValues ==
    { JBool(TRUE), JBool(FALSE), JStr("true"), JStr("TRUE"), JStr("false"),
      JStr("False"), JStr("yes"), JStr("0"), JStr(""), JInt(1), JInt(0), JNull,
      JList(<<>>), JDict(<<>>) }

ListWireValues ==
    { JList(<<>>), JList(<<JStr("sell"), JStr("buy")>>),
      JList(<<JStr("2"), JStr("1"), JStr("2")>>),
      JList(<<JStr("buy"), JInt(1)>>), JList(<<JNull, JStr("buy")>>),
      JStr(""), JStr("ab"), JStr("21"), JDict(<<>>),
      JDict(<< <<"buy", JInt(1)>> >>), JInt(5), JBool(TRUE), JNull }

ParseInputs ==
    [obj : EnumWireValues,
     desired_type : {TEnum("OrderSide"), TEnum("OrderType"),
                     TOptional(TEnum("OrderSide")), TList(TEnum("OrderSide"))}]
    \cup [obj : {JStr("BTC"), CurrencyInfoPayload, JNull, JInt(1)},
          desired_type : {TUnion(TStr, TRecord("CurrencyInfo"))}]
    \cup [obj : BoolWireValues, desired_type : {TBool, TOptional(TBool)}]
    \cup [obj : ListWireValues,
          desired_type : {TList(TStr), TList(TEnum("OrderSide")), TList(TInt)}]

call_from_raw ==
    /\ Calling("from_raw")
    /\ pure' = Result(MessageElement_from_raw(pure.in.cls, pure.in.raw))
    /\ UNCHANGED <<pipelines, lock, callers, pipes, queue, delivered, handled, _api_secret>>

call_parse_to_desired_type ==
    /\ Calling("_parse_to_desired_type")
    /\ pure' = Result(parse_to_desired_type(pure.in.obj, pure.in.desired_type))
    /\ UNCHANGED <<pipelines, lock, callers, pipes, queue, delivered, handled, _api_secret>>

call_parse_to_bool ==
    /\ Calling("parse_to_bool")
    /\ pure' = Result(parse_to_bool(pure.in.raw_bool))
    /\ UNCHANGED <<pipelines, lock, callers, pipes, queue, delivered, handled, _api_secret>>

DecodeInit ==
    /\ ConnectorInit
    /\ \/ \E in \in FromRawInputs : pure = Call("from_raw", in)
       \/ \E in \in ParseInputs : pure = Call("_parse_to_desired_type", in)
       \/ \E raw_bool \in BoolWireValues :
             pure = Call("parse_to_bool", [raw_bool |-> raw_bool])

DecodeNext == call_from_raw \/ call_parse_to_desired_type \/ call_parse_to_bool

DecodeSpec == DecodeInit /\ [][DecodeNext]_vars

(* ------------------------------- claims -------------------------------- *)
PipesOf(ch) == {p \in Pids : pipes[p].ch = ch}

AlreadyError == "ValueError: already have a pipeline"

\* C1: under every interleaving of subscribe calls, at most one pipeline has
\* been constructed and started for each channel.
C1_AtMostOnePipelinePerChannel ==
    \A ch \in WebsocketType : Cardinality(PipesOf(ch)) <= 1

\* two calls for the same channel are in the creation at once: one holds the
\* lock with its pipeline started, the other waits for the lock
C1_Witness ==
    \E t1, t2 \in Callers :
        /\ t1 # t2
        /\ callers[t1].ch = callers[t2].ch
        /\ callers[t1].pc = "starting" /\ lock = t1
        /\ callers[t2].pc = "create"
        /\ Cardinality(PipesOf(callers[t1].ch)) = 1

\* C2: no subscribe_to_market call (with a market event tag) fails with the
\* 'already have a pipeline' error: a call that does not create the TRADE
\* pipeline has its message sent on the existing one.
C2_NoMarketCallFailsWithAlreadyError ==
    \A t \in Callers :
        callers[t].op = "subscribe_to_market" => callers[t].result # AlreadyError

\* C3: an open-channel call that finds a pipeline for its channel raises the
\* invariant-violation error in the caller, constructs and starts no pipeline,
\* changes no connection and leaves the channel map as it is.
C3_SecondOpenRaises ==
    [][\A t \in Callers :
          ( /\ callers[t].pc = "create"
            /\ pipelines[callers[t].ch] # NoPipeline
            /\ callers'[t] # callers[t] )
          => ( /\ callers'[t].pc = "done"
               /\ callers'[t].result = AlreadyError
               /\ pipes' = pipes
               /\ pipelines' = pipelines
               /\ lock' = lock )]_vars

\* subscribe_to_account was called twice: the second call has raised, and the
\* ACCOUNT channel still has the one pipeline of the first call
C3_Witness ==
    \E t1, t2 \in Callers :
        /\ callers[t1].op = "subscribe_to_account" /\ callers[t1].result = "ok"
        /\ callers[t2].op = "subscribe_to_account"
        /\ callers[t2].result = AlreadyError
        /\ pipelines["ACCOUNT"] = callers[t1].pid
        /\ PipesOf("ACCOUNT") = {callers[t1].pid}

DataTags == AccountTags \cup TradeTags

IsControlFrame(f) == f.kind = "object" /\ f.type \in ControlTags

\* C4: whatever is on the queue or was taken from it is a ParsedMessage with a
\* data-bearing tag and decoded data, and a frame with a control tag puts
\* nothing on the queue and raises nothing.
C4_OnlyDecodedDataQueued ==
    /\ \A i \in 1..Len(delivered \o queue) :
          LET m == (delivered \o queue)[i]
          IN  m.type \in DataTags /\ m.data # "none"
    /\ IsControlFrame(handled.frame) =>
          handled.put = <<>> /\ handled.exc = NoException

\* a control frame was handled, and dropped, after a data frame was queued
C4_Witness ==
    /\ IsControlFrame(handled.frame)
    /\ handled.frame.type = "SUBSCRIBED"
    /\ Len(queue) = 1
    /\ pipes[1].nrecv = 2

\* C5: a frame with a data-bearing tag and a payload that satisfies the tag's
\* schema raises nothing and puts exactly one ParsedMessage with that tag on
\* the queue.
C5_EveryDataTagDecodes ==
    ( /\ handled.frame.kind = "object"
      /\ handled.frame.type \in DataTags
      /\ handled.frame.data = "ok" )
    => ( /\ handled.exc = NoException
         /\ Len(handled.put) = 1
         /\ handled.put[1].type = handled.frame.type
         /\ handled.put[1].data # "none" )

SameChannel(m1, m2) == pipes[m1.pid].ch = pipes[m2.pid].ch

\* C6: envelopes of frames of one channel are on the queue, and reach the
\* consumer, in the order in which the frames were received.
C6_PerChannelFifo ==
    LET all == delivered \o queue
    IN  \A i, j \in 1..Len(all) :
          (i < j /\ SameChannel(all[i], all[j])) => all[i].seq < all[j].seq

\* the consumer has taken two envelopes of one channel with an envelope of
\* the other channel between them
C6_Witness ==
    /\ Len(delivered) >= 3
    /\ \E i, j, k \in 1..Len(delivered) :
          /\ i < j /\ j < k
          /\ delivered[i].pid = delivered[k].pid
          /\ delivered[i].pid # delivered[j].pid
          /\ delivered[i].seq = 1 /\ delivered[k].seq = 2

Count(seq, x) == Cardinality({i \in 1..Len(seq) : seq[i] = x})

IsPrefix(a, b) == Len(a) <= Len(b) /\ SubSeq(b, 1, Len(a)) = a

\* C7: a connection that is open has had the opening messages of its pipeline
\* sent first, in order and once each; before it opens nothing is sent; the
\* TRADE pipeline's opening message is the subscription of the call that
\* created it and the ACCOUNT pipeline sends no message.
C7_OpeningMessagesSentOnOpen ==
    \A p \in Pids :
        /\ pipes[p].conn = "CONNECTING" => pipes[p].sent = <<>>
        /\ pipes[p].conn = "OPEN" =>
              /\ IsPrefix(pipes[p].opening, pipes[p].sent)
              /\ \A i \in 1..Len(pipes[p].opening) :
                    Count(pipes[p].sent, pipes[p].opening[i]) = 1
        /\ pipes[p].ch = "ACCOUNT" => pipes[p].sent = <<>>
        /\ pipes[p].ch = "TRADE" =>
              /\ Len(pipes[p].opening) = 1
              /\ \A t \in Callers :
                    callers[t].pid = p => pipes[p].opening = callers[t].msg

\* the TRADE connection is open, its opening message went first and a later
\* subscription followed it
C7_Witness ==
    \E p \in Pids :
        /\ pipes[p].ch = "TRADE" /\ pipes[p].conn = "OPEN"
        /\ Len(pipes[p].sent) = 2
        /\ pipes[p].sent[1] = pipes[p].opening[1]
        /\ pipes[p].sent[2] # pipes[p].opening[1]

\* C8: in every execution in which a pipeline's connection opens and stays
\* open, a PING is sent again and again.
C8_HeartbeatForever ==
    \A p \in 1..MaxPipes :
        <>[](p \in Pids /\ pipes[p].conn = "OPEN")
        => []<>(p \in Pids /\ pipes[p].ping = "sleep")

\* C9: a pipeline that is CLOSED stays CLOSED.
C9_NoReconnect ==
    [][\A p \in Pids : pipes[p].conn = "CLOSED" => pipes'[p].conn = "CLOSED"]_vars

\* a pipeline that streamed frames is closed while a caller is still to call
C9_Witness ==
    \E p \in Pids :
        /\ pipes[p].conn = "CLOSED" /\ pipes[p].nrecv > 0
        /\ \E t \in Callers : callers[t].pc = "idle"

FrameStep == \E p \in Pids : pipes'[p].nrecv = pipes[p].nrecv + 1

\* the failures the claim lists: not a JSON object, no type, a data tag
\* without data, a payload that violates the schema
FailureCase(f) ==
    \/ f.kind \in {"badjson", "nonobject"}
    \/ /\ f.kind = "object"
       /\ \/ f.type = NoType
          \/ f.type \in DataTags /\ f.data # "ok"

\* C10 as stated: a frame whose handling fails puts nothing on the queue,
\* leaves the queued items unchanged, is logged and has its exception
\* re-raised.
C10_FailureLoggedAndRaised ==
    [][(FrameStep /\ FailureCase(handled'.frame))
         => ( /\ queue' = queue
              /\ handled'.exc # NoException
              /\ handled'.logged )]_vars

\* C10 amended: the message is logged exactly when the frame is a JSON object
\* (the failure arises in the message formatter).
C10_FailureRaisedQueueUntouched ==
    [][(FrameStep /\ FailureCase(handled'.frame))
         => ( /\ queue' = queue
              /\ delivered' = delivered
              /\ handled'.exc # NoException
              /\ handled'.logged <=> (handled'.frame.kind = "object") )]_vars

\* a frame whose payload has an undeclared key has failed, with an envelope
\* queued before it still on the queue
C10_Witness ==
    /\ handled.frame.kind = "object"
    /\ handled.frame.type = "AGGREGATED_ORDERBOOK_UPDATE"
    /\ handled.frame.data = "unexpected_key"
    /\ handled.exc = "ValueError" /\ handled.logged
    /\ Len(queue) = 1 /\ queue[1].seq = 1
    /\ pipes[1].nrecv = 2

IsUnknownTagFrame(f) ==
    f.kind = "object" /\ f.type \notin WebsocketMessageType \cup {NoType}

\* C11: a frame whose type is no known event tag makes the handler raise the
\* enum's ValueError; no envelope is produced and the queue is unchanged.
C11_UnknownTagIsHardError ==
    [][(FrameStep /\ IsUnknownTagFrame(handled'.frame))
         => ( /\ handled'.exc = "ValueError"
              /\ handled'.put = <<>>
              /\ queue' = queue )]_vars

\* the lower-case spelling of a decodable tag came with a valid payload and
\* was refused, after the upper-case spelling had been queued
C11_Witness ==
    /\ handled.frame = Frame("object", LowerCaseTag, "ok")
    /\ handled.exc = "ValueError"
    /\ Len(queue) = 1 /\ queue[1].type = "AGGREGATED_ORDERBOOK_UPDATE"
    /\ pipes[1].nrecv = 2

\* the canonical message of the claim: timestamp, upper-cased method, path,
\* body (a dict as JSON), and the sub-account id when one is given
CanonicalMessage(in) ==
    IntStr(in.timestamp) \o StrUpper(in.method) \o in.path
    \o (IF in.body.t = "dict" THEN JsonDumps(in.body.items) ELSE in.body.s)
    \o (IF in.subaccount_id = None THEN "" ELSE in.subaccount_id[1])

HasBody(in) == in.body.t # "None"

\* C12: request_signature is the keyed digest of exactly the canonical
\* message; the letter case of the method does not change it; the golden
\* inputs of the tests sign the pinned byte sequences.
C12_SignatureOfCanonicalMessage ==
    (Returned("request_signature") /\ HasBody(pure.in)) =>
        /\ pure.out = HmacSha512Hex(pure.in.api_secret, CanonicalMessage(pure.in))
        /\ \A m \in Methods :
              StrUpper(m) = StrUpper(pure.in.method) =>
                 request_signature(pure.in.api_secret, m, pure.in.path,
                                   pure.in.body, pure.in.timestamp,
                                   pure.in.subaccount_id) = pure.out
        /\ ( /\ pure.in.timestamp = GoldenTime1 /\ pure.in.method = "GET"
             /\ pure.in.path = "/v1/account/balances"
             /\ pure.in.body = StrBody("") /\ pure.in.subaccount_id = None )
           => pure.out = HmacSha512Hex(pure.in.api_secret,
                             "1558014486185GET/v1/account/balances")
        /\ ( /\ pure.in.timestamp = GoldenTime2 /\ pure.in.method = "POST"
             /\ pure.in.path = "/v1/orders/market"
             /\ pure.in.body = GoldenBody2 /\ pure.in.subaccount_id = None )
           => pure.out = HmacSha512Hex(pure.in.api_secret,
                 "1558017528946POST/v1/orders/market{\"customerOrderId\": \"ORDER-000001\", "
                 \o "\"pair\": \"BTCZAR\", \"side\": \"BUY\", \"quoteAmount\": \"80000\"}")

\* a lower-case method, a dict body and a sub-account id have been signed
C12_Witness ==
    /\ Returned("request_signature")
    /\ pure.in.method = "get"
    /\ pure.in.body = GoldenBody2
    /\ pure.in.subaccount_id = Some("1234")
    /\ pure.in.api_secret = GoldenSecret

\* C13: generate_headers returns the three headers, and the sub-account
\* header as a fourth exactly when an id is given; the timestamp header is
\* the timestamp that was signed.
C13_HeaderSet ==
    Returned("generate_headers") =>
        /\ DOMAIN pure.out =
              {"X-VALR-API-KEY", "X-VALR-SIGNATURE", "X-VALR-TIMESTAMP"}
              \cup (IF pure.in.subaccount_id = None THEN {}
                    ELSE {"X-VALR-SUB-ACCOUNT-ID"})
        /\ Cardinality(DOMAIN pure.out) =
              IF pure.in.subaccount_id = None THEN 3 ELSE 4
        /\ pure.out["X-VALR-API-KEY"] = pure.in.api_key
        /\ pure.in.subaccount_id # None =>
              pure.out["X-VALR-SUB-ACCOUNT-ID"] = pure.in.subaccount_id[1]
        /\ \E ts \in {GoldenTime1, GoldenTime2} :
              /\ pure.out["X-VALR-TIMESTAMP"] = IntStr(ts)
              /\ pure.out["X-VALR-SIGNATURE"] =
                    HmacSha512Hex(pure.in.api_secret,
                        CanonicalMessage([timestamp |-> ts] @@ pure.in))

\* headers with a sub-account id were generated while the clock moved on
C13_Witness ==
    /\ Returned("generate_headers")
    /\ pure.in.subaccount_id = Some("1234")
    /\ pure.in.clock[1] # pure.in.clock[2]
    /\ Cardinality(DOMAIN pure.out) = 4

LacksCredentials(in) == in.api_key = None \/ in.api_secret = None

\* C14: an authenticated request of a connector without the key or without
\* the secret never reaches the session; it ends in the configuration error.
C14_NoCredentialsNothingSent ==
    (pure.fn = "_make_request" /\ pure.in.auth /\ LacksCredentials(pure.in)) =>
        /\ ~pure.sent
        /\ pure.stage \in {"call", "raise"}
        /\ pure.stage = "raise" => pure.exc = "ValueError"

\* an authenticated request with a key and no secret has raised
C14_Witness ==
    /\ pure.fn = "_make_request" /\ pure.stage = "raise"
    /\ pure.in.auth /\ pure.in.api_key # None /\ pure.in.api_secret = None
    /\ pure.exc = "ValueError" /\ ~pure.sent

Answered == pure.fn = "_make_request" /\ pure.stage \in {"raise", "return"} /\ pure.sent

\* C15: a response whose body is an object with a `code` key raises
\* RestException carrying the body, whatever the value under the key; an
\* object without the key and a list are returned.
C15_CodeFieldAlwaysRaises ==
    (Answered /\ pure.response.body.t \in {"dict", "list"}) =>
        IF pure.response.body.t = "dict" /\ HasKey(pure.response.body, "code")
        THEN /\ pure.stage = "raise" /\ pure.exc = "RestException"
             /\ pure.arg = pure.response.body
        ELSE pure.stage = "return" /\ pure.out = pure.response.body

\* the scales, in probing order, at which the epoch is a second count that
\* a datetime can hold
RepresentableAt(timestamp) ==
    { i \in 1..Len(Resolutions) :
        DigitsLE(WholePart(timestamp, Resolutions[i]), MaxDatetimeSeconds) }

FirstRepresentable(timestamp) ==
    CHOOSE i \in RepresentableAt(timestamp) :
        \A j \in RepresentableAt(timestamp) : i <= j

\* C20: a numeric epoch decodes at the first of the scales seconds,
\* milliseconds, microseconds, nanoseconds that gives a representable date;
\* 1558014486185 decodes to an instant on 2019-05-16, and 1558014486 decodes
\* to the same result as 1558014486185.
C20_FirstRepresentableScale ==
    Returned("_timestamp_to_datetime") =>
        /\ RepresentableAt(pure.in) # {} =>
              LET k == Resolutions[FirstRepresentable(pure.in)]
              IN  pure.out = fromtimestamp(WholePart(pure.in, k),
                                           Microseconds(pure.in, k))
        /\ pure.in = GoldenTime1 =>
              /\ pure.out.t = "datetime"
              /\ SubSeq(pure.out.v, 1, 3) = <<2019, 5, 16>>
        /\ pure.in = GoldenSeconds => pure.out = timestamp_to_datetime(GoldenTime1)

\* a key that is no declared field, after normalization, at the top level of
\* a payload of class cls, in a nested record or in a record of a list
RECURSIVE HasUnknownKey(_, _)
RECURSIVE HasUnknownKeyIn(_, _)
HasUnknownKey(cls, raw) ==
    /\ raw.t = "dict"
    /\ LET snake == apply_snake_case(raw)
       IN  \/ \E i \in 1..Len(snake.v) : snake.v[i][1] \notin FieldNames(cls)
           \/ \E i \in 1..Len(type_hints(cls)) :
                 HasUnknownKeyIn(type_hints(cls)[i][2],
                                 DictGet(snake, type_hints(cls)[i][1]))

HasUnknownKeyIn(desired_type, val) ==
    CASE desired_type.k = "MessageElement" -> HasUnknownKey(desired_type.name, val)
      [] desired_type.k = "Optional" -> HasUnknownKeyIn(desired_type.inner[1], val)
      [] desired_type.k = "List" ->
           /\ val.t = "list"
           /\ \E i \in 1..Len(val.v) : HasUnknownKeyIn(desired_type.inner[1], val.v[i])
      [] OTHER -> FALSE

\* C16: a payload with a key that no record declares, at the top level, in a
\* nested record or in a record of a list, decodes to an error and to no
\* record.
C16_UnknownKeyIsError ==
    (Returned("from_raw") /\ HasUnknownKey(pure.in.cls, pure.in.raw)) =>
        IsErr(pure.out)

\* an order book whose only unknown key is inside a level of a list
C16_Witness ==
    /\ Returned("from_raw")
    /\ pure.in.cls = "AggregatedOrderbook"
    /\ \A i \in 1..Len(pure.in.raw.v) :
          convert_to_snake_case(pure.in.raw.v[i][1]) \in FieldNames("AggregatedOrderbook")
    /\ HasUnknownKey(pure.in.cls, pure.in.raw)
    /\ pure.out = Err("ValueError")

\* the decoded value of a field of a record
FieldOf(record, name) ==
    record.v[CHOOSE i \in 1..Len(record.v) : record.v[i][1] = name][2]

IsOptional(desired_type) == desired_type.k = "Optional"

\* the record with the value of one field replaced
WithField(record, name, val) ==
    [record EXCEPT !.v = [i \in 1..Len(record.v) |->
                            IF record.v[i][1] = name THEN <<name, val>>
                            ELSE record.v[i]]]

WithoutKey(raw, name) == JDict(SelectSeq(raw.v, LAMBDA item : item[1] # name))

\* C17: a field that is not Optional and is absent or null makes the decode
\* fail; an Optional field that is absent or null decodes to null, and taking
\* it away from a payload that decodes gives no error; a non-null value of an
\* Optional field is coerced like its inner type.
C17_RequiredAndOptionalFields ==
    (Returned("from_raw") /\ pure.in.raw.t = "dict") =>
        LET cls == pure.in.cls
            snake == apply_snake_case(pure.in.raw)
        IN  \A i \in 1..Len(type_hints(cls)) :
               LET name == type_hints(cls)[i][1]
                   desired_type == type_hints(cls)[i][2]
                   val == DictGet(snake, name)
               IN  /\ (~IsOptional(desired_type) /\ val = JNull) => IsErr(pure.out)
                   /\ (IsOptional(desired_type) /\ ~IsErr(pure.out)) =>
                         /\ FieldOf(pure.out, name) =
                               IF val = JNull THEN JNull
                               ELSE parse_to_desired_type(val, desired_type.inner[1])
                         /\ MessageElement_from_raw(cls, WithoutKey(snake, name))
                               = WithField(pure.out, name, JNull)
                         /\ MessageElement_from_raw(cls, JDict(DictSet(snake.v, name, JNull)))
                               = WithField(pure.out, name, JNull)

\* a level without its Optional order_count has decoded, the field is null
C17_Witness ==
    /\ Returned("from_raw")
    /\ pure.in.cls = "AggregatedOrderbookLevel"
    /\ ~HasKey(apply_snake_case(pure.in.raw), "order_count")
    /\ ~IsErr(pure.out)
    /\ FieldOf(pure.out, "order_count") = JNull
    /\ FieldOf(pure.out, "side") = EnumMember("OrderSide", "BUY")

\* C18: a payload with its keys in camelCase, PascalCase or a mixture of
\* camelCase and snake_case decodes to the result of the same payload with
\* its keys in snake_case.
C18_KeyCasingInsensitive ==
    Returned("from_raw") =>
        \A val \in SnakePayloads(pure.in.cls) : \A style \in KeyStyles :
            pure.in.raw = Recase(val, style) =>
                pure.out = MessageElement_from_raw(pure.in.cls, val)

\* the canonical order book in camelCase has decoded to a record
C18_Witness ==
    /\ Returned("from_raw")
    /\ pure.in.cls = "AggregatedOrderbook"
    /\ pure.in.raw = Recase(CanonicalPayload("AggregatedOrderbook"), "camelCase")
    /\ HasKey(pure.in.raw, "lastChange")
    /\ pure.out.t = "AggregatedOrderbook"
    /\ FieldOf(pure.out, "sequence_number") = JInt(7)

\* the wire strings of the enum fields and the members they decode to
EnumExpected ==
    << <<"OrderSide", "buy", "BUY">>, <<"OrderSide", "BUY", "BUY">>,
       <<"OrderSide", "Sell", "SELL">>,
       <<"OrderType", "LIMIT", "LIMIT">>,
       <<"OrderType", "limit-post-only", "LIMIT_POST_ONLY">>,
       <<"OrderType", "stop loss limit", "STOP_LOSS_LIMIT">>,
       <<"OrderType", "Take_Profit-Limit", "TAKE_PROFIT_LIMIT">> >>

\* C19: a string that is the value of a member, as it is or upper-cased with
\* '-' and ' ' turned into '_', decodes to that member: "buy" and "BUY" to
\* OrderSide.BUY; every other string, "unknown-side" among them, and every
\* value that is no string is an error.
C19_EnumCoercion ==
    (Returned("_parse_to_desired_type") /\ pure.in.desired_type.k = "Enum") =>
        LET name == pure.in.desired_type.name
            obj == pure.in.obj
            expected == { i \in 1..Len(EnumExpected) :
                            /\ EnumExpected[i][1] = name
                            /\ obj = JStr(EnumExpected[i][2]) }
        IN  IF expected # {}
            THEN \A i \in expected : pure.out = EnumMember(name, EnumExpected[i][3])
            ELSE IsErr(pure.out)

\* the string "buy" has decoded to OrderSide.BUY
C19_Witness ==
    /\ Returned("_parse_to_desired_type")
    /\ pure.in.desired_type = TEnum("OrderSide")
    /\ pure.in.obj = JStr("buy")
    /\ pure.out = EnumMember("OrderSide", "BUY")

\* C21: a field declared str | record decodes a string to that string and a
\* map that its record class decodes to that record; neither fails.
C21_UnionTakesFirstFittingBranch ==
    /\ (Returned("_parse_to_desired_type") /\ pure.in.desired_type.k = "Union") =>
          LET record == pure.in.desired_type.inner[2].name
          IN  /\ pure.in.obj.t = "str" => pure.out = pure.in.obj
              /\ (/\ pure.in.obj.t = "dict"
                  /\ ~IsErr(MessageElement_from_raw(record, pure.in.obj)))
                 => pure.out = MessageElement_from_raw(record, pure.in.obj)
    /\ (Returned("from_raw") /\ pure.in.cls = "CurrencyPairInfo") =>
          LET snake == apply_snake_case(pure.in.raw)
              base == DictGet(snake, "base_currency")
              with_string == MessageElement_from_raw("CurrencyPairInfo",
                                 JDict(DictSet(snake.v, "base_currency", JStr("BTC"))))
          IN  (/\ ~IsErr(with_string)
               /\ base.t = "dict"
               /\ ~IsErr(MessageElement_from_raw("CurrencyInfo", base)))
              => pure.out = WithField(with_string, "base_currency",
                                MessageElement_from_raw("CurrencyInfo", base))

\* the boolean a string spells, compared without regard to case
SpelledBool(text) ==
    IF StrLower(text) = "true" THEN JBool(TRUE)
    ELSE IF StrLower(text) = "false" THEN JBool(FALSE)
    ELSE Err("TypeError")

\* what boolean coercion is said to give for a value
BoolExpected(obj) ==
    IF obj.t = "bool" THEN obj
    ELSE IF obj.t = "str" THEN SpelledBool(obj.v)
    ELSE Err("TypeError")

\* C22: boolean coercion passes a native boolean through, turns a string that
\* is "true" or "false" in any casing into that boolean, and raises for every
\* other string and every value of another type.
C22_BoolCoercion ==
    /\ (Returned("_parse_to_desired_type") /\ pure.in.desired_type = TBool) =>
          IF IsErr(BoolExpected(pure.in.obj)) THEN IsErr(pure.out)
          ELSE pure.out = BoolExpected(pure.in.obj)
    /\ Returned("parse_to_bool") =>
          IF IsErr(BoolExpected(pure.in.raw_bool)) THEN IsErr(pure.out)
          ELSE pure.out = BoolExpected(pure.in.raw_bool)

\* C23: a List[T] value must be a list; each element is coerced on its own, so
\* the result has the length and the order of the input; a map, a string or a
\* scalar is an error, and so is a list with an element that fails.
C23_ListCoercion ==
    (Returned("_parse_to_desired_type") /\ pure.in.desired_type.k = "List") =>
        LET obj == pure.in.obj
            inner_type == pure.in.desired_type.inner[1]
        IN  IF obj.t # "list" THEN IsErr(pure.out)
            ELSE IF \E i \in 1..Len(obj.v) :
                       IsErr(parse_to_desired_type(obj.v[i], inner_type))
                 THEN IsErr(pure.out)
                 ELSE /\ pure.out.t = "list"
                      /\ Len(pure.out.v) = Len(obj.v)
                      /\ \A i \in 1..Len(obj.v) :
                            pure.out.v[i] = parse_to_desired_type(obj.v[i], inner_type)

\* two different keys of the payload are the same key in snake_case
KeysCollide(raw) ==
    \E i, j \in 1..Len(raw.v) :
        /\ raw.v[i][1] # raw.v[j][1]
        /\ convert_to_snake_case(raw.v[i][1]) = convert_to_snake_case(raw.v[j][1])

\* C26: a payload with two different keys that are one field after
\* normalization, currencyPair and currency_pair, does not decode: neither
\* value is dropped for the other.
C26_CollidingKeysAreAnError ==
    (Returned("from_raw") /\ pure.in.raw.t = "dict" /\ KeysCollide(pure.in.raw)) =>
        IsErr(pure.out)

\* the message the signature of a request without a body is said to cover:
\* the body contributes the empty string
BodilessMessage(in) ==
    CanonicalMessage([timestamp |-> in.clock[1], method |-> in.method,
                      path |-> "/v1/" \o in.endpoint, body |-> StrBody(""),
                      subaccount_id |-> in.subaccount])

\* C24: a signed request without a body, GET, POST or DELETE, is signed over
\* the canonical message with the empty string in the place of the body.
C24_NoBodySignsEmptyString ==
    (/\ pure.fn = "_make_request"
     /\ pure.headers # NoHeaders
     /\ pure.in.json = NoneBody) =>
        pure.headers["X-VALR-SIGNATURE"] =
            HmacSha512Hex(pure.in.api_secret[1], BodilessMessage(pure.in))

\* C27: no step takes a pipeline out of the channel map or puts another in
\* its place, a terminated one included; once a channel's pipeline is CLOSED
\* an attempt to create that channel ends in 'already have a pipeline', a
\* market subscription is routed to the closed pipeline and fails on it, and
\* no second pipeline is ever made for the channel.
C27_ClosedPipelineStaysRegistered ==
    /\ [][\A ch \in WebsocketType :
            pipelines[ch] # NoPipeline => pipelines'[ch] = pipelines[ch]]_vars
    /\ [][\A t \in Callers :
            LET closed == /\ pipelines["TRADE"] # NoPipeline
                          /\ pipes[pipelines["TRADE"]].conn = "CLOSED"
            IN  /\ (/\ callers[t].pc = "idle"
                    /\ callers'[t].op = "subscribe_to_market"
                    /\ callers'[t].result = "none"
                    /\ closed)
                   => callers'[t].pc = "send"
                /\ (callers[t].pc = "send" /\ callers'[t].pc = "done" /\ closed)
                   => /\ callers'[t].result = "WebSocketConnectionClosedException"
                      /\ pipes' = pipes]_vars
    /\ [][\A t \in Callers :
            (/\ callers[t].pc = "create"
             /\ callers'[t] # callers[t]
             /\ pipelines[callers[t].ch] # NoPipeline
             /\ pipes[pipelines[callers[t].ch]].conn = "CLOSED")
            => /\ callers'[t].pc = "done"
               /\ callers'[t].result = AlreadyError
               /\ pipes' = pipes]_vars
    /\ [](\A ch \in WebsocketType : Cardinality(PipesOf(ch)) <= 1)

\* the account channel was asked for again after its pipeline had closed
C27_Witness ==
    /\ pipelines["ACCOUNT"] # NoPipeline
    /\ pipes[pipelines["ACCOUNT"]].conn = "CLOSED"
    /\ pipes[pipelines["ACCOUNT"]].nrecv > 0
    /\ \E t \in Callers :
          /\ callers[t].ch = "ACCOUNT" /\ callers[t].result = AlreadyError

\* C28: a heartbeat worker that has failed to send stays stopped; the failed
\* send happens only on a connection that is not open and changes nothing
\* else of the pipeline, neither its connection nor what its receive worker
\* has done; a PING is written only on an open connection, so none after the
\* pipeline is CLOSED.
C28_HeartbeatStopsAtFirstFailure ==
    [][\A p \in Pids :
         /\ pipes[p].ping = "dead" => pipes'[p].ping = "dead"
         /\ (pipes[p].ping # "dead" /\ pipes'[p].ping = "dead")
            => /\ pipes[p].conn # "OPEN"
               /\ pipes'[p] = [pipes[p] EXCEPT !.ping = "dead"]
         /\ (pipes[p].ping = "send" /\ pipes'[p].ping = "sleep")
            => pipes[p].conn = "OPEN"]_vars

\* the heartbeat worker died before the handshake was over; the connection
\* has opened since and its receive worker has handled a frame
C28_Witness ==
    \E p \in Pids :
        pipes[p].ping = "dead" /\ pipes[p].conn = "OPEN" /\ pipes[p].nrecv > 0

\* the tags subscribe_to_market takes
MarketChannelTags ==
    {"AGGREGATED_ORDERBOOK_UPDATE", "FULL_ORDERBOOK_UPDATE",
     "MARKET_SUMMARY_UPDATE", "NEW_TRADE_BUCKET", "NEW_TRADE"}

MarketErrors == {"ValueError: market-type", "NotImplementedError"}

\* C30: subscribe_to_market with a tag that is no market-channel tag ends in an
\* error in the step that makes the call: the channel map, the pipelines with
\* what was sent on them, the queue and the lock are as they were.
C30_NonMarketTagRaisesFirst ==
    /\ [][\A t \in Callers :
            (/\ callers[t].pc = "idle"
             /\ callers'[t].op = "subscribe_to_market"
             /\ callers'[t].msg[1].event \notin MarketChannelTags)
            => /\ callers'[t].pc = "done"
               /\ callers'[t].result \in MarketErrors
               /\ callers'[t].pid = NoPipeline
               /\ UNCHANGED <<pipelines, pipes, queue, lock>>]_vars
    /\ [](\A t \in Callers :
            (/\ callers[t].op = "subscribe_to_market"
             /\ callers[t].msg[1].event \notin MarketChannelTags)
            => callers[t].pc = "done" /\ callers[t].result \in MarketErrors)

\* an account tag was refused while the trade connection was open
C30_Witness ==
    /\ pipelines["TRADE"] # NoPipeline
    /\ pipes[pipelines["TRADE"]].conn = "OPEN"
    /\ \E t \in Callers :
          /\ callers[t].op = "subscribe_to_market"
          /\ callers[t].msg[1].event = "BALANCE_UPDATE"
          /\ callers[t].result = "ValueError: market-type"
          /\ callers[t].pid = NoPipeline

InCreation(t) == callers[t].pc = "starting"

C25_ExitAlwaysCloses ==
    /\ [](\A p \in Pids :
            /\ pipes[p].recv \in {"running", "returned"}
            /\ pipes[p].recv = "returned" <=> pipes[p].conn = "CLOSED")
    /\ [][\A p \in Pids :
            pipes[p].recv = "running" /\ pipes'[p].recv # "running" =>
               /\ pipes'[p].conn = "CLOSED"
               /\ pipes'[p].recv = "returned"
               /\ \E lines \in SUBSET {"Error while running websocket:",
                                       "error while terminating websocket:"} :
                     pipes'[p] = [pipes[p] EXCEPT !.conn = "CLOSED",
                                                  !.recv = "returned",
                                                  !.log = lines]]_vars
    /\ [][\A p \in Pids :
            pipes[p].conn = "CLOSED" =>
               pipes'[p].conn = "CLOSED" /\ pipes'[p].log = pipes[p].log]_vars

\* run_forever raised and so did close: both are in the log, the worker has
\* returned and the pipeline is CLOSED
C25_Witness ==
    \E p \in Pids :
        /\ pipes[p].log = {"Error while running websocket:",
                           "error while terminating websocket:"}
        /\ pipes[p].recv = "returned"
        /\ pipes[p].conn = "CLOSED"
        /\ pipes[p].nrecv > 0

====
